---- MODULE Spec2Model ----
(***************************************************************************)
(* A model of the MRF raster band tile engine (mrf_band.cpp): IReadBlock,  *)
(* IWriteBlock, FetchBlock, FetchClonedBlock, RB, FillBlock, DeflateBlock  *)
(* and swab_buff, over byte buffers.  A store holds NTiles tiles of        *)
(* PagePixels pixels (pagesize.x = PagePixels, pagesize.y = 1) for NBands  *)
(* bands, at level 0.  Buffers are sequences of bytes (0..255); the host   *)
(* is little endian.  calc holds one application of a helper on its own   *)
(* (DeflateBlock on a buffer, the index position of a tile coordinate,     *)
(* ClippedRasterIO on a band, the deflate flags of the constructor, the    *)
(* band loops over a dataset of several band groups), and tool is the      *)
(* state of mrf_insert (mrf_insert.cpp): main and state::patch, with       *)
(* coordinates in whole units of 0.005.                                    *)
(***************************************************************************)
EXTENDS Integers, Sequences, FiniteSets, TLC

VARIABLES cfg, idx, dat, pbuffer, written, last, nops, nwrites, calc, tool

vars == <<cfg, idx, dat, pbuffer, written, last, nops, nwrites, calc, tool>>

\* The variables of the block I/O of a store.
storevars == <<cfg, idx, dat, pbuffer, written, last, nops, nwrites>>

-----------------------------------------------------------------------------
(* Bounds of the model *)

PagePixels == 2
NBands == 2
NTiles == 1
MaxVal == 1
MaxOps == 2
MaxWrites == 1
MaxFaults == 1
MaxGrid == 3
MaxLevel == 2
MaxBlockX == 3
MaxBlockY == 5
MaxWidth == 4
MaxHeight == 3
MaxSources == 2
MaxBand == 3
MaxOff == 2
ToolBands == 1
MaxQuality == 100
MaxStride == 2
MaxGroups == 2

(* Program constants *)

DeflateSlack == 64
InflateSlack == 1440
ResTolerance == 1000

(* Codec framing bytes of the modelled codec and deflate wrapper *)

CodecMagic == 200
ZMagic == 120
PbSlack == 2

-----------------------------------------------------------------------------
(* Buffers *)

Bands == 0 .. (NBands - 1)
Tiles == 0 .. (NTiles - 1)
Widths == {1, 2, 4, 8}
\* GDALGetDataTypeSize(GDT_CFloat64) / 8, an element no copy is written for.
WideWidth == 16
NULL == << >>

\* A function over 1 .. n as a sequence value.
Arr(f) == f \o << >>

Rep(n, b) == Arr([i \in 1 .. n |-> b])

Min(a, b) == IF a < b THEN a ELSE b

Reverse(s) == Arr([i \in 1 .. Len(s) |-> s[Len(s) + 1 - i]])

\* The first n bytes at a buffer; bytes past its end are not the buffer's
\* (whatever memory follows it), shown as 255.
Take(s, n) == Arr([i \in 1 .. n |-> IF i <= Len(s) THEN s[i] ELSE 255])

\* The bytes of one integer element of width w on the little endian host.
elemBytes(v, w) ==
    Arr([i \in 1 .. w |-> IF i = 1 THEN v % 256
                          ELSE IF i = 2 THEN (v \div 256) % 256 ELSE 0])

\* A block of elements vals (a sequence of values), each w bytes wide.
BlockOf(vals, w) ==
    Arr([k \in 1 .. (Len(vals) * w) |->
            elemBytes(vals[((k - 1) \div w) + 1], w)[((k - 1) % w) + 1]])

pageSizeBytes(c) == PagePixels * c.c * c.vsz
blockSizeBytes(c) == pageSizeBytes(c) \div c.c
pbsize(c) == pageSizeBytes(c) + PbSlack

is_zero(b, count) == \A i \in 1 .. count : b[i] = 0

is_empty(b, count, val) == \A i \in 1 .. count : b[i] = val

swab_buff_once(b, w) ==
    Arr([k \in 1 .. Len(b) |->
            LET e == (k - 1) \div w
                j == (k - 1) % w
            IN IF e < Len(b) \div w THEN b[e * w + (w - 1 - j) + 1] ELSE b[k]])

swab_buff(b, w) == IF w \in {2, 4, 8} THEN swab_buff_once(b, w) ELSE b

is_Endianess_Dependent(c) == c.vsz > 1

needSwap(c) == is_Endianess_Dependent(c) /\ ~c.netOrder

\* cpy_stride_in<T>(dst, (T *)src + off, cnt, stride): element k of the
\* result is source element off + k * stride.
cpy_stride_in(src, off, cnt, stride, w) ==
    Arr([k \in 1 .. (cnt * w) |->
            LET e == off + ((k - 1) \div w) * stride
                p == e * w + ((k - 1) % w) + 1
            IN IF p <= Len(src) THEN src[p] ELSE 255])

\* cpy_stride_out<T>((T *)dst + off, src, cnt, stride): source element k
\* lands at element off + k * stride of dst; the rest of dst is kept.
cpy_stride_out(dst, off, src, cnt, stride, w) ==
    Arr([p \in 1 .. Len(dst) |->
            LET e == (p - 1) \div w
                j == (p - 1) % w
            IN IF e >= off /\ (e - off) % stride = 0 /\ (e - off) \div stride < cnt
               THEN src[((e - off) \div stride) * w + j + 1]
               ELSE dst[p]])

-----------------------------------------------------------------------------
(* The tile codec and the deflate wrapper (lossless, not the identity) *)

Compress(page) == <<CodecMagic>> \o Reverse(page)

Decompress(bytes, psb) ==
    IF Len(bytes) = psb + 1 /\ bytes[1] = CodecMagic
    THEN [ok |-> TRUE, out |-> Reverse(Tail(bytes))]
    ELSE [ok |-> FALSE, out |-> << >>]

ZPack(bytes) == <<ZMagic>> \o bytes

ZUnPack(bytes, dstsize) ==
    IF Len(bytes) >= 1 /\ bytes[1] = ZMagic /\ Len(bytes) - 1 <= dstsize
    THEN [ok |-> TRUE, out |-> Tail(bytes)]
    ELSE [ok |-> FALSE, out |-> << >>]

\* The temporary buffer only when the trailing space is smaller than the
\* input.
DeflateBlock_noSlack(bytes, extrasize, fail) ==
    LET temp == extrasize < Len(bytes)
    IN IF fail
       THEN [ok |-> FALSE, out |-> bytes, temp |-> temp, at |-> 0]
       ELSE [ok |-> TRUE, out |-> ZPack(bytes), temp |-> temp,
             at |-> IF temp THEN 0 ELSE Len(bytes)]

\* DeflateBlock(src, extrasize, flags): ok is FALSE for the NULL return;
\* temp tells whether the temporary buffer was allocated, at the offset in
\* src.buffer where the packed bytes are returned.
DeflateBlock(bytes, extrasize, fail) ==
    LET temp == extrasize < Len(bytes) + DeflateSlack
    IN IF fail
       THEN [ok |-> FALSE, out |-> bytes, temp |-> temp, at |-> 0]
       ELSE [ok |-> TRUE, out |-> ZPack(bytes), temp |-> temp,
             at |-> IF temp THEN 0 ELSE Len(bytes)]

-----------------------------------------------------------------------------
(* FillBlock *)

\* FillBlock(buffer): the first blockSizeBytes() bytes of the buffer get
\* the NoData value (0 when undeclared), the rest of the buffer is kept.
FillBytes(c) ==
    LET ndv == IF ~c.hasNoData THEN 0 ELSE c.ndv
    IN IF ~c.hasNoData \/ c.vsz = 1
       THEN Rep(blockSizeBytes(c), ndv % 256)
       ELSE BlockOf(Rep(PagePixels, ndv), c.vsz)

FillBlock(c, buffer) ==
    Arr([i \in 1 .. Len(buffer) |->
            IF i <= blockSizeBytes(c) THEN FillBytes(c)[i] ELSE buffer[i]])

-----------------------------------------------------------------------------
(* The store: the tile index, the data file and the dataset page buffer *)

Entry(o, s) == [offset |-> o, size |-> s]

Positions == Tiles \X Bands

\* The index position of tile xblk for band m_band: the coordinate
\* (xblk, 0, 0, m_band / cstride, m_l) at level 0.
Req(c, band, tile) == <<tile, band \div c.c>>

\* The bands that share the index position of band.
GroupOf(c, band) == {b \in Bands : b \div c.c = band \div c.c}

AllBandMask == Bands

Store(i, d, p) == [idx |-> i, dat |-> d, pbuffer |-> p]

\* WriteTile(buff, infooffset, size): appends size bytes at buff to the
\* data file and then records (offset, size); with size 0 it records the
\* value of buff as the offset (0: not stored, nonzero: confirmed empty).
\* A failed data write changes nothing, a failed index write leaves the
\* index entry as it was.
WriteTile(c, st, pos, buff, bytes, size, F) ==
    IF size > 0 /\ ("wtdata" \in F \/ c.dataRO)
    THEN [st |-> st, ok |-> FALSE]
    ELSE LET d == IF size > 0 THEN st.dat \o Take(bytes, size) ELSE st.dat
         IN IF "wtidx" \in F \/ c.idxRO
            THEN [st |-> [st EXCEPT !.dat = d], ok |-> FALSE]
            ELSE [st |-> [st EXCEPT !.dat = d,
                                    !.idx[pos] = Entry(IF size > 0 THEN Len(st.dat)
                                                      ELSE buff, size)],
                  ok |-> TRUE]

\* The record of one call of a handler: what it was given, the path it
\* took, what it returned and what it left in the caller's buffers.
NoOut ==
    [op |-> "none", band |-> 0, tile |-> 0, F |-> {},
     pre |-> Entry(0, 0), datlen |-> 0, ret |-> "CE_None", path |-> "none",
     inbuf |-> << >>, buf |-> << >>, inothers |-> << >>, others |-> << >>,
     fetched |-> FALSE, fetchret |-> "none", src |-> << >>, clip |-> FALSE,
     obfilled |-> << >>, win |-> << >>, rio |-> 0,
     swapsRaw |-> 0, compressed |-> 0, deflated |-> 0,
     wt |-> << >>, cleaned |-> {}, locked |-> 0, dropped |-> 0,
     reissued |-> "none", inf |-> "none", dec |-> "none",
     decin |-> << >>, readin |-> << >>]

\* No helper has been applied, and mrf_insert does not run.
NoCalc == [op |-> "none"]
NoTool == [pc |-> "none"]

Ret(ok) == IF ok THEN "CE_None" ELSE "CE_Failure"

\* One WriteTile call as it is recorded: the pointer, the size and the
\* bytes handed over.
WtCall(buff, bytes, size) == [buff |-> buff, size |-> size, bytes |-> Take(bytes, size)]

\* The emptiness test without the NoData comparison of byte data.
SkipPage_zeroOnly(c, b, count) == is_zero(b, count)

\* The emptiness test of the write and fetch paths over count bytes.
SkipPage(c, b, count) ==
    IF c.vsz = 1 /\ c.hasNoData
    THEN is_empty(b, count, c.ndv % 256)
    ELSE is_zero(b, count)

\* Writing bytes at offset at of a buffer, cut at the buffer's end.
Poke(buffer, at, bytes) ==
    Arr([i \in 1 .. Len(buffer) |->
            IF i > at /\ i <= at + Len(bytes) THEN bytes[i - at] ELSE buffer[i]])

\* What Compress leaves in dst: the encoded page, or on failure dst.size
\* as it was (the whole scratch) over bytes that are no encoded page.
CompressInto(page, scratch, gb, fail) ==
    IF fail THEN Rep(scratch, gb) ELSE Compress(page)

-----------------------------------------------------------------------------
(* IWriteBlock *)

\* Band-separate write: cstride = 1.
IWriteBlockSeparate(c, st, w, band, tile, buffer, gb, F) ==
    LET pos == Req(c, band, tile)
        psb == pageSizeBytes(c)
        base == [NoOut EXCEPT !.op = "write", !.band = band, !.tile = tile,
                              !.F = F, !.pre = st.idx[pos], !.datlen = Len(st.dat),
                              !.inbuf = buffer, !.buf = buffer]
        blocks == [b \in {band} |-> buffer]
    IN IF SkipPage(c, buffer, psb)
       THEN LET r == WriteTile(c, st, pos, 0, << >>, 0, F)
            IN [st |-> r.st,
                w |-> IF r.ok THEN [w EXCEPT ![pos] = [kind |-> "elided", blocks |-> blocks]]
                      ELSE w,
                out |-> [base EXCEPT !.path = "elide", !.ret = Ret(r.ok),
                                     !.wt = <<WtCall(0, << >>, 0)>>]]
       ELSE LET src == IF needSwap(c) THEN swab_buff(buffer, c.vsz) ELSE buffer
                nsw == IF needSwap(c) THEN 1 ELSE 0
                dst == CompressInto(src, pbsize(c), gb, "compress" \in F)
                d == DeflateBlock(dst, pbsize(c) - Len(dst), "deflate" \in F)
                use == IF c.deflate THEN d.out ELSE dst
                pb1 == Poke(st.pbuffer, 0, dst)
                pb2 == IF c.deflate /\ d.ok THEN Poke(pb1, d.at, d.out) ELSE pb1
                st1 == [st EXCEPT !.pbuffer = pb2]
                mid == [base EXCEPT !.path = "store", !.buf = src, !.swapsRaw = nsw,
                                    !.compressed = 1,
                                    !.deflated = IF c.deflate THEN 1 ELSE 0]
            IN IF c.deflate /\ ~d.ok
               THEN [st |-> st1, w |-> w, out |-> [mid EXCEPT !.ret = "CE_Failure"]]
               ELSE LET r == WriteTile(c, st1, pos, 2, use, Len(use), F)
                    IN [st |-> r.st,
                        w |-> IF r.ok
                              THEN [w EXCEPT ![pos] = [kind |-> "stored", blocks |-> blocks]]
                              ELSE w,
                        out |-> [mid EXCEPT !.ret = Ret(r.ok),
                                            !.wt = <<WtCall(2, use, Len(use))>>]]

\* The block of the band stays dirty.
MarkClean_none(cleaned, iBand) == cleaned

\* poBlock->MarkClean() on the block of another band.
MarkClean(cleaned, iBand) == cleaned \cup {iBand}

\* The band loop of the interleaved write, bands iBand .. NBands - 1: the
\* page assembled in tbuffer, the bands found empty, the dirty mask and the
\* other bands' blocks that were marked clean and unlocked.  An element
\* width without a copy ends the loop and the call at the switch, after
\* the block of the band was locked.
RECURSIVE WriteBandLoop(_, _, _, _, _, _)
WriteBandLoop(c, band, buffer, others, iBand, acc) ==
    IF iBand >= NBands THEN acc
    ELSE LET img == IF iBand = band THEN buffer ELSE others[iBand]
         IN IF img = NULL
            THEN WriteBandLoop(c, band, buffer, others, iBand + 1, acc)
            ELSE IF c.vsz \notin Widths
            THEN [acc EXCEPT !.empties = IF SkipPage(c, img, blockSizeBytes(c))
                                         THEN acc.empties \cup {iBand} ELSE acc.empties,
                             !.bdirty = acc.bdirty \cup {iBand},
                             !.locked = IF iBand = band THEN acc.locked ELSE acc.locked + 1,
                             !.failed = TRUE]
            ELSE WriteBandLoop(c, band, buffer, others, iBand + 1,
                   [tbuffer |-> cpy_stride_out(acc.tbuffer, iBand, img,
                                               blockSizeBytes(c) \div c.vsz, c.c, c.vsz),
                    empties |-> IF SkipPage(c, img, blockSizeBytes(c))
                                THEN acc.empties \cup {iBand} ELSE acc.empties,
                    bdirty |-> acc.bdirty \cup {iBand},
                    cleaned |-> IF iBand = band THEN acc.cleaned
                                ELSE MarkClean(acc.cleaned, iBand),
                    locked |-> IF iBand = band THEN acc.locked ELSE acc.locked + 1,
                    dropped |-> IF iBand = band THEN acc.dropped ELSE acc.dropped + 1,
                    failed |-> FALSE])

\* Elision as soon as one band is empty.
ElideGroup_any(empties) == empties # {}

\* empties == AllBandMask(): every band was seen and found empty.
ElideGroup(empties) == empties = AllBandMask

\* Interleaved write: cstride > 1.
IWriteBlockInterleaved(c, st, w, band, tile, buffer, others, gb, F) ==
    LET pos == Req(c, band, tile)
        psb == pageSizeBytes(c)
        lp == WriteBandLoop(c, band, buffer, others, 0,
                [tbuffer |-> Rep(psb + pbsize(c), gb), empties |-> {}, bdirty |-> {},
                 cleaned |-> {}, locked |-> 0, dropped |-> 0, failed |-> FALSE])
        base == [NoOut EXCEPT !.op = "write", !.band = band, !.tile = tile,
                              !.F = F, !.pre = st.idx[pos], !.datlen = Len(st.dat),
                              !.inbuf = buffer, !.buf = buffer,
                              !.inothers = others, !.others = others,
                              !.cleaned = lp.cleaned, !.locked = lp.locked,
                              !.dropped = lp.dropped]
        blocks == [b \in Bands |-> IF b = band THEN buffer ELSE others[b]]
    IN IF lp.failed
       THEN [st |-> st, w |-> w,
             out |-> [base EXCEPT !.path = "unsupported", !.ret = "CE_Failure"]]
       ELSE IF ElideGroup(lp.empties)
       THEN LET r == WriteTile(c, st, pos, 0, << >>, 0, F)
            IN [st |-> r.st,
                w |-> IF r.ok THEN [w EXCEPT ![pos] = [kind |-> "elided", blocks |-> blocks]]
                      ELSE w,
                out |-> [base EXCEPT !.path = "elide", !.ret = Ret(r.ok),
                                     !.wt = <<WtCall(0, << >>, 0)>>]]
       ELSE LET src == Take(lp.tbuffer, psb)
                dst == CompressInto(src, pbsize(c), gb, "compress" \in F)
                d == DeflateBlock(dst, psb + pbsize(c) - Len(dst), "deflate" \in F)
                use == IF c.deflate THEN d.out ELSE dst
                mid == [base EXCEPT !.path = "store", !.compressed = 1,
                                    !.deflated = IF c.deflate THEN 1 ELSE 0]
            IN IF c.deflate /\ ~d.ok
               THEN [st |-> st, w |-> w, out |-> [mid EXCEPT !.ret = "CE_Failure"]]
               ELSE LET r == WriteTile(c, st, pos, 2, use, Len(use), F)
                    IN [st |-> r.st,
                        w |-> IF r.ok
                              THEN [w EXCEPT ![pos] = [kind |-> "stored", blocks |-> blocks]]
                              ELSE w,
                        out |-> [mid EXCEPT !.ret = Ret(r.ok),
                                            !.wt = <<WtCall(2, use, Len(use))>>]]

IWriteBlock(c, st, w, band, tile, buffer, others, gb, F) ==
    IF c.c = 1
    THEN IWriteBlockSeparate(c, st, w, band, tile, buffer, gb, F)
    ELSE IWriteBlockInterleaved(c, st, w, band, tile, buffer, others, gb, F)

-----------------------------------------------------------------------------
(* RB: de-interleave the page in poDS->pbuffer *)

\* Every band of the dataset gets its block out of the page: the calling
\* band in buffer, the others in their locked blocks.
RB(c, page, band) ==
    [buf |-> cpy_stride_in(page, band, blockSizeBytes(c) \div c.vsz, c.c, c.vsz),
     others |-> [b \in Bands \ {band} |->
                   cpy_stride_in(page, b, blockSizeBytes(c) \div c.vsz, c.c, c.vsz)],
     locked |-> NBands - 1,
     dropped |-> NBands - 1]

-----------------------------------------------------------------------------
(* FetchBlock: the source window and the strided read *)

\* pcount(size, psz): the number of pages of psz that cover size.
pcount(size, psz) == ((size - 1) \div psz) + 1

\* The window of one dimension: offset and size in source pixels of tile
\* blk of a level whose scale to the base is scl, clipped to the source
\* size full.  int(x + 0.5) of the integral x is x.
FetchWindow(blk, ps, scl, full) ==
    LET off == blk * ps * scl
        rd == ps * scl
        clip == off + rd > full
    IN [off |-> off, rd |-> IF clip THEN full - off ELSE rd, clip |-> clip,
        bufsz |-> pcount(IF clip THEN full - off ELSE rd, scl)]

\* The buffer FetchBlock reads into, as it is before RasterIO.
FetchOb(c, ob, clip) == IF clip THEN FillBlock(c, ob) ELSE ob

\* The strides FetchBlock hands to RasterIO: pixel, line and band.
PixelSpace(c) == c.vsz * c.c
LineSpace(c) == c.vsz * c.c * PagePixels
BandSpace(c) == c.vsz * c.c * PagePixels * 1

\* RasterIO(GF_Read, ...) of count bands into ob: pixel px of band index b
\* lands at byte px * PixelSpace + b * BandSpace; src[b + 1] are the source
\* values of that band in the window.
RECURSIVE RasterIO(_, _, _, _, _, _)
RasterIO(c, ob, src, nx, count, k) ==
    IF k >= nx * count THEN ob
    ELSE LET px == k % nx
             b == k \div nx
         IN RasterIO(c, Poke(ob, px * PixelSpace(c) + b * BandSpace(c),
                            elemBytes(src[b + 1][px + 1], c.vsz)),
                     src, nx, count, k + 1)

-----------------------------------------------------------------------------
(* IReadBlock, FetchBlock, FetchClonedBlock *)

\* The size-0 test without the index mode.
NoFetch_anyIndexMode(c, tinfo) ==
    tinfo.offset # 0 \/ c.update \/ c.source = "none"

\* The size-0 test without the offset of a tile found empty.
NoFetch_refetchEmpty(c, tinfo) ==
    c.update \/ c.source = "none" \/ c.idxRO

\* The size-0 test of IReadBlock: fill, do not fetch.
NoFetch(c, tinfo) ==
    tinfo.offset # 0 \/ c.update \/ c.source = "none" \/ c.idxRO

\* What the source store holds for a page: the bytes its write path stored.
Stored(c, page) == IF c.deflate THEN ZPack(Compress(page)) ELSE Compress(page)

\* The page of a source image sp (one sequence of values per band).
PageOf(c, sp) ==
    Arr([p \in 1 .. pageSizeBytes(c) |->
            LET e == (p - 1) \div c.vsz
            IN elemBytes(sp[(e % c.c) + 1][(e \div c.c) + 1], c.vsz)[((p - 1) % c.vsz) + 1]])

\* The inflated bytes go to Decompress whether ZUnPack succeeded or not.
InflateOrKeep_always(c, data, z) == IF c.deflate THEN z.out ELSE data

\* The bytes and size Decompress gets: what ZUnPack produced when the
\* store deflates and ZUnPack succeeded, what was read otherwise.
InflateOrKeep(c, data, z) == IF c.deflate /\ z.ok THEN z.out ELSE data

\* Only band-separate pages return before the de-interleave.
SkipRB_separateOnly(c, ok) == c.c = 1

\* 1 == cstride || CE_None != ret: the read returns without RB.
SkipRB(c, ok) == c.c = 1 \/ ~ok

\* The stored tile, decoded: IReadBlock when the index entry has a size.
ReadStored(c, st, w, base, band, tinfo, buffer, gb, F) ==
    LET psb == pageSizeBytes(c)
    IN IF "datafp" \in F \/ "read" \in F \/ tinfo.offset + tinfo.size > Len(st.dat)
       THEN [st |-> st, w |-> w, out |-> [base EXCEPT !.path = "decode", !.ret = "CE_Failure"]]
       ELSE LET data == SubSeq(st.dat, tinfo.offset + 1, tinfo.offset + tinfo.size)
                z == IF "inflate" \in F THEN [ok |-> FALSE, out |-> << >>]
                     ELSE ZUnPack(data, psb + InflateSlack)
                src == InflateOrKeep(c, data, z)
                dec == IF "decompress" \in F THEN [ok |-> FALSE, out |-> << >>]
                       ELSE Decompress(src, psb)
                raw == IF dec.ok THEN dec.out ELSE Rep(psb, gb)
                dst == IF needSwap(c) THEN swab_buff(raw, c.vsz) ELSE raw
                mid == [base EXCEPT !.path = "decode", !.ret = Ret(dec.ok),
                                    !.swapsRaw = IF needSwap(c) THEN 1 ELSE 0,
                                    !.readin = data, !.decin = src,
                                    !.inf = IF ~c.deflate THEN "none"
                                            ELSE IF z.ok THEN "ok" ELSE "fail",
                                    !.dec = IF dec.ok THEN "ok" ELSE "fail"]
            IN IF c.c = 1
               THEN [st |-> st, w |-> w, out |-> [mid EXCEPT !.buf = dst]]
               ELSE LET st1 == [st EXCEPT !.pbuffer = Poke(st.pbuffer, 0, dst)]
                        rb == RB(c, dst, band)
                    IN IF SkipRB(c, dec.ok)
                       THEN [st |-> st1, w |-> w, out |-> mid]
                       ELSE [st |-> st1, w |-> w,
                             out |-> [mid EXCEPT !.buf = rb.buf, !.others = rb.others,
                                                 !.locked = rb.locked,
                                                 !.dropped = rb.dropped]]

\* (void *)1: the pointer WriteTile gets for a tile found empty at the source.
EmptyMark == 1

\* A clone that stores whatever the mode of its data file.
CloneDelegates_never(c) == FALSE

\* A clone that never stores.
CloneDelegates_always(c) == TRUE

\* DataMode() == GF_Read: a clone that cannot store hands the read to the
\* source band.
CloneDelegates(c) == c.dataRO

\* FetchClonedBlock, up to the re-issued read: tail tells whether
\* IReadBlock is called again.
FetchClonedBlock(c, st, w, base, band, tile, buffer, sp, F) ==
    LET pos == Req(c, band, tile)
        f == [base EXCEPT !.path = "clone", !.fetched = TRUE, !.src = sp]
        fail == [st |-> st, w |-> w, tail |-> FALSE,
                 out |-> [f EXCEPT !.ret = "CE_Failure", !.fetchret = "CE_Failure"]]
    IN IF "srcds" \in F THEN fail
       ELSE IF CloneDelegates(c)
       THEN \* the read is the source band's IReadBlock
            IF "srcread" \in F THEN fail
            ELSE [st |-> st, w |-> w, tail |-> FALSE,
                  out |-> [f EXCEPT !.fetchret = "CE_None",
                             !.buf = IF sp = NULL THEN FillBlock(c, buffer)
                                     ELSE RB(c, PageOf(c, sp), band).buf]]
       ELSE IF "cidx" \in F THEN fail
       ELSE IF sp = NULL
       THEN LET r == WriteTile(c, st, pos, EmptyMark, << >>, 0, F)
            IN IF ~r.ok
               THEN [st |-> r.st, w |-> w, tail |-> FALSE,
                     out |-> [f EXCEPT !.ret = "CE_Failure", !.fetchret = "CE_Failure",
                                       !.wt = <<WtCall(EmptyMark, << >>, 0)>>]]
               ELSE [st |-> r.st,
                     w |-> [w EXCEPT ![pos] = [kind |-> "fetchedEmpty", blocks |-> << >>]],
                     tail |-> FALSE,
                     out |-> [f EXCEPT !.fetchret = "CE_None",
                                       !.buf = FillBlock(c, buffer),
                                       !.wt = <<WtCall(EmptyMark, << >>, 0)>>]]
       ELSE IF "srcfp" \in F \/ "shortread" \in F THEN fail
       ELSE LET bytes == Stored(c, PageOf(c, sp))
                r == WriteTile(c, st, pos, 2, bytes, Len(bytes), F)
            IN IF ~r.ok
               THEN [st |-> r.st, w |-> w, tail |-> FALSE,
                     out |-> [f EXCEPT !.ret = "CE_Failure", !.fetchret = "CE_Failure",
                                       !.wt = <<WtCall(2, bytes, Len(bytes))>>]]
               ELSE [st |-> r.st,
                     w |-> [w EXCEPT ![pos] = [kind |-> "cloned", blocks |-> << >>]],
                     tail |-> TRUE,
                     out |-> [f EXCEPT !.wt = <<WtCall(2, bytes, Len(bytes))>>]]

\* FetchBlock from a source raster.
FetchBlock(c, st, w, base, band, tile, buffer, sp, gb, F) ==
    LET pos == Req(c, band, tile)
        psb == pageSizeBytes(c)
        f == [base EXCEPT !.path = "fetch", !.fetched = TRUE, !.src = sp]
        fail == [st |-> st, w |-> w,
                 out |-> [f EXCEPT !.ret = "CE_Failure", !.fetchret = "CE_Failure"]]
    IN IF c.source = "none" \/ "srcds" \in F THEN fail
       ELSE LET wx == FetchWindow(tile, PagePixels, 1, c.fullx)
                ob0 == IF c.c # 1 THEN st.pbuffer ELSE buffer
                ob1 == FetchOb(c, ob0, wx.clip)
                count == c.c
                \* the bands of the read: nBand alone, or the first cstride bands
                src == IF c.c = 1 THEN <<sp[band + 1]>> ELSE sp
                ob2 == IF "rasterio" \in F THEN ob1
                       ELSE RasterIO(c, ob1, src, wx.bufsz, count, 0)
                st2 == IF c.c # 1 THEN [st EXCEPT !.pbuffer = ob2] ELSE st
                buf2 == IF c.c # 1 THEN buffer ELSE ob2
                g == [f EXCEPT !.clip = wx.clip, !.obfilled = ob1, !.rio = 1,
                               !.win = <<wx.off, wx.rd>>, !.buf = buf2]
            IN IF "rasterio" \in F
               THEN [st |-> st2, w |-> w,
                     out |-> [g EXCEPT !.ret = "CE_Failure", !.fetchret = "CE_Failure"]]
               ELSE IF SkipPage(c, ob2, psb)
               THEN LET r == WriteTile(c, st2, pos, EmptyMark, << >>, 0, F)
                    IN [st |-> r.st,
                        w |-> IF r.ok
                              THEN [w EXCEPT ![pos] = [kind |-> "fetchedEmpty",
                                                       blocks |-> << >>]]
                              ELSE w,
                        out |-> [g EXCEPT !.ret = Ret(r.ok), !.fetchret = Ret(r.ok),
                                          !.wt = <<WtCall(EmptyMark, << >>, 0)>>]]
               ELSE LET filesrc == Take(ob2, psb)
                        filedst == CompressInto(filesrc, pbsize(c), gb, "compress" \in F)
                        d == DeflateBlock(filedst, pbsize(c) - Len(filedst), "deflate" \in F)
                        use == IF c.deflate THEN d.out ELSE filedst
                        h == [g EXCEPT !.compressed = 1,
                                       !.deflated = IF c.deflate THEN 1 ELSE 0]
                    IN IF c.deflate /\ ~d.ok
                       THEN [st |-> st2, w |-> w,
                             out |-> [h EXCEPT !.ret = "CE_Failure",
                                               !.fetchret = "CE_Failure"]]
                       ELSE LET r == WriteTile(c, st2, pos, 2, use, Len(use), F)
                                k == [h EXCEPT !.ret = Ret(r.ok), !.fetchret = Ret(r.ok),
                                               !.wt = <<WtCall(2, use, Len(use))>>]
                                rb == RB(c, Take(r.st.pbuffer, psb), band)
                                w1 == IF r.ok
                                      THEN [w EXCEPT ![pos] = [kind |-> "fetched",
                                                               blocks |-> << >>]]
                                      ELSE w
                            IN IF ~r.ok \/ c.c = 1
                               THEN [st |-> r.st, w |-> w1, out |-> k]
                               ELSE [st |-> r.st, w |-> w1,
                                     out |-> [k EXCEPT !.buf = rb.buf,
                                                       !.others = rb.others,
                                                       !.locked = rb.locked,
                                                       !.dropped = rb.dropped]]

\* IReadBlock.  depth counts the re-issued reads of FetchClonedBlock.
RECURSIVE IReadBlock(_, _, _, _, _, _, _, _, _, _)
IReadBlock(c, st, w, band, tile, buffer, sp, gb, F, depth) ==
    LET pos == Req(c, band, tile)
        tinfo == st.idx[pos]
        base == [NoOut EXCEPT !.op = "read", !.band = band, !.tile = tile,
                              !.F = F, !.pre = tinfo, !.datlen = Len(st.dat),
                              !.inbuf = buffer, !.buf = buffer]
    IN IF "idx" \in F
       THEN [st |-> st, w |-> w, out |-> [base EXCEPT !.path = "idxfail",
                                                      !.ret = "CE_Failure"]]
       ELSE IF tinfo.size = 0
       THEN IF NoFetch(c, tinfo)
            THEN [st |-> st, w |-> w,
                  out |-> [base EXCEPT !.path = "fill", !.buf = FillBlock(c, buffer)]]
            ELSE IF c.source = "clone"
            THEN LET r == FetchClonedBlock(c, st, w, base, band, tile, buffer, sp, F)
                 IN IF r.tail /\ depth < 2
                    THEN LET q == IReadBlock(c, r.st, r.w, band, tile, buffer, sp, gb,
                                             F, depth + 1)
                         IN [st |-> q.st, w |-> q.w,
                             out |-> [q.out EXCEPT !.pre = tinfo, !.datlen = Len(st.dat),
                                        !.path = "clone", !.fetched = TRUE, !.src = sp,
                                        !.fetchret = q.out.ret, !.wt = r.out.wt,
                                        !.reissued = q.out.path]]
                    ELSE [st |-> r.st, w |-> r.w, out |-> r.out]
            ELSE FetchBlock(c, st, w, base, band, tile, buffer, sp, gb, F)
       ELSE ReadStored(c, st, w, base, band, tinfo, buffer, gb, F)

-----------------------------------------------------------------------------
(* The configurations of a store and the inputs of a call *)

\* vNoData is empty when no NoData value is declared.
Formats ==
    {[c |-> cc, vsz |-> v, netOrder |-> n, deflate |-> z, hasNoData |-> h, ndv |-> d] :
        cc \in {1, NBands}, v \in Widths, n \in BOOLEAN, z \in BOOLEAN,
        h \in BOOLEAN, d \in {0, MaxVal}}

Modes ==
    {[source |-> s, update |-> u, idxRO |-> i, dataRO |-> d, fullx |-> x] :
        s \in {"none", "raster", "clone"}, u \in BOOLEAN, i \in BOOLEAN, d \in BOOLEAN,
        x \in {NTiles * PagePixels - 1, NTiles * PagePixels}}

Config(f, m) ==
    [c |-> f.c, vsz |-> f.vsz, netOrder |-> f.netOrder, deflate |-> f.deflate,
     hasNoData |-> f.hasNoData, ndv |-> f.ndv,
     source |-> m.source, update |-> m.update, idxRO |-> m.idxRO, dataRO |-> m.dataRO,
     fullx |-> m.fullx]

\* The source raster size only matters to a store that fetches from one.
GoodFormat(f) == f.hasNoData \/ f.ndv = 0
GoodMode(m) == m.source = "raster" \/ m.fullx = NTiles * PagePixels

\* A store written locally, and a cache of a source raster: every format.
StoreModes ==
    {m \in Modes : /\ GoodMode(m) /\ ~m.idxRO /\ ~m.dataRO
                   /\ \/ m.update /\ m.source = "none"
                      \/ ~m.update /\ m.source = "raster"}

StoreConfigs == {Config(f, m) : f \in {g \in Formats : GoodFormat(g)}, m \in StoreModes}

\* Every mode of access and every kind of source, for the formats of one
\* and two byte elements in host order, without the deflate wrapper.
ModeFormats ==
    {f \in Formats : GoodFormat(f) /\ f.vsz \in {1, 2} /\ ~f.netOrder /\ ~f.deflate}

ModeConfigs == {Config(f, m) : f \in ModeFormats, m \in {n \in Modes : GoodMode(n)}}

\* Uninitialised memory holds any bytes: two of them are followed.
GarbageBytes == {0, 170}

ValSeqs == [1 .. PagePixels -> 0 .. MaxVal]

\* The blocks a caller can hand to a write.
Blocks(c) == {BlockOf(v, c.vsz) : v \in ValSeqs}

\* A block that is neither zero nor NoData all over, for the calls in
\* which a step fails.
SomeVals == [i \in 1 .. PagePixels |-> IF i = 1 THEN MaxVal ELSE 0]

\* The images a source can hold for a tile: one sequence of values per band.
SrcImages(c) ==
    IF c.c = 1 THEN {[b \in 1 .. NBands |-> v] : v \in ValSeqs}
    ELSE [1 .. NBands -> ValSeqs]

FaultSets(names) ==
    {{}} \cup {{a} : a \in names}
         \cup (IF MaxFaults >= 2 THEN {{a, b} : a \in names, b \in names} ELSE {})

WriteFaults(c) ==
    FaultSets({"compress", "wtdata", "wtidx"} \cup (IF c.deflate THEN {"deflate"} ELSE {}))

DecodeFaults(c) ==
    {"datafp", "read", "decompress"} \cup (IF c.deflate THEN {"inflate"} ELSE {})

ReadFaults(c, tinfo) ==
    FaultSets({"idx"} \cup
        (IF tinfo.size # 0 THEN DecodeFaults(c)
         ELSE IF NoFetch(c, tinfo) THEN {}
         ELSE IF c.source = "raster"
              THEN {"srcds", "rasterio", "compress", "wtdata", "wtidx"}
                   \cup (IF c.deflate THEN {"deflate"} ELSE {})
         ELSE IF c.dataRO THEN {"srcds", "srcread"}
         ELSE {"srcds", "cidx", "srcfp", "shortread", "wtdata", "wtidx"}
              \cup DecodeFaults(c)))

\* What the source holds for the tile, when the read goes to the source.
SourceTiles(c, tinfo, F) ==
    IF tinfo.size # 0 \/ NoFetch(c, tinfo) THEN {NULL}
    ELSE IF F # {} THEN {[b \in 1 .. NBands |-> SomeVals]}
    ELSE IF c.source = "clone" THEN SrcImages(c) \cup {NULL}
    ELSE SrcImages(c)

\* The bytes of the caller's buffer and of the scratch memory matter when
\* the call may leave some of them as they were.
ReadGarbage(c, tinfo, F) ==
    IF (tinfo.size = 0 /\ ~NoFetch(c, tinfo) /\ F = {}) \/ "decompress" \in F
    THEN GarbageBytes ELSE {170}

WriteGarbage(c, others, F) ==
    IF F = {} /\ \E b \in DOMAIN others : c.c # 1 /\ others[b] = NULL
    THEN GarbageBytes ELSE {170}

-----------------------------------------------------------------------------
(* The state machine *)

NoTile == [kind |-> "none", blocks |-> << >>]

InitStore(configs) ==
    /\ cfg \in configs
    /\ idx = [p \in Positions |-> Entry(0, 0)]
    /\ dat = << >>
    /\ \E gb \in (IF cfg.c = 1 \/ cfg.source # "raster" THEN {170} ELSE GarbageBytes) :
          pbuffer = Rep(pbsize(cfg), gb)
    /\ written = [p \in Positions |-> NoTile]
    /\ last = NoOut
    /\ nops = 0
    /\ nwrites = 0
    /\ calc = NoCalc
    /\ tool = NoTool

Init == InitStore(StoreConfigs)

InitModes == InitStore(ModeConfigs)

\* A deflating store, written locally, whose data file holds one tile
\* that was stored before the deflate wrapper was turned on.
PlainConfigs == {c \in StoreConfigs : c.deflate /\ c.update}

InitPlain ==
    /\ cfg \in PlainConfigs
    /\ LET page == PageOf(cfg, [b \in 1 .. NBands |-> SomeVals])
           bytes == Compress(IF needSwap(cfg) THEN swab_buff(page, cfg.vsz) ELSE page)
       IN /\ idx = [p \in Positions |->
                      IF p = Req(cfg, 0, 0) THEN Entry(0, Len(bytes)) ELSE Entry(0, 0)]
          /\ dat = bytes
    /\ pbuffer = Rep(pbsize(cfg), 170)
    /\ written = [p \in Positions |->
                    IF p = Req(cfg, 0, 0) THEN [kind |-> "plain", blocks |-> << >>]
                    ELSE NoTile]
    /\ last = NoOut
    /\ nops = 0
    /\ nwrites = 0
    /\ calc = NoCalc
    /\ tool = NoTool

Apply(r, nw) ==
    /\ idx' = r.st.idx
    /\ dat' = r.st.dat
    /\ pbuffer' = r.st.pbuffer
    /\ written' = r.w
    /\ last' = r.out
    /\ nops' = nops + 1
    /\ nwrites' = nwrites + nw
    /\ UNCHANGED <<cfg, calc, tool>>

\* A block is written: GDAL writes blocks of a dataset open for update.
IWriteBlockStep ==
    /\ nops < MaxOps
    /\ nwrites < MaxWrites
    /\ cfg.update
    /\ \E band \in Bands, tile \in Tiles, F \in WriteFaults(cfg) :
         \E buffer \in (IF F = {} THEN Blocks(cfg) ELSE {BlockOf(SomeVals, cfg.vsz)}) :
           \E others \in [Bands \ {band} ->
                            (IF cfg.c = 1 THEN {NULL}
                             ELSE IF F # {} THEN {BlockOf(SomeVals, cfg.vsz)}
                             ELSE Blocks(cfg) \cup {NULL})] :
             \E gb \in WriteGarbage(cfg, others, F) :
                Apply(IWriteBlock(cfg, Store(idx, dat, pbuffer), written, band, tile,
                                  buffer, others, gb, F), 1)

\* A block is read into a buffer that holds whatever it held.
IReadBlockStep ==
    /\ nops < MaxOps
    /\ \E band \in Bands, tile \in Tiles :
         LET tinfo == idx[Req(cfg, band, tile)]
         IN \E F \in ReadFaults(cfg, tinfo) :
              \E sp \in SourceTiles(cfg, tinfo, F), gb \in ReadGarbage(cfg, tinfo, F) :
                Apply(IReadBlock(cfg, Store(idx, dat, pbuffer), written, band, tile,
                                 Rep(blockSizeBytes(cfg), gb), sp, gb, F, 0), 0)

Next == IWriteBlockStep \/ IReadBlockStep

Spec == Init /\ [][Next]_vars

SpecModes == InitModes /\ [][Next]_vars

SpecPlain == InitPlain /\ [][Next]_vars

\* Stores of elements of WideWidth bytes, written locally, without a
\* NoData value.
WideConfigs ==
    {Config([c |-> cc, vsz |-> WideWidth, netOrder |-> FALSE, deflate |-> FALSE,
             hasNoData |-> FALSE, ndv |-> 0], m) :
        cc \in {1, NBands}, m \in {n \in StoreModes : n.update}}

InitWide == InitStore(WideConfigs)

SpecWide == InitWide /\ [][Next]_vars

-----------------------------------------------------------------------------
(* The index position of a tile *)

\* ILSize(x, y, z, c, l): a tile coordinate.
ILSize(x, y, z, c, l) == [x |-> x, y |-> y, z |-> z, c |-> c, l |-> l]

\* The coordinate each handler builds for block (xblk, yblk) of the band
\* m_band at level m_l; cstride is img.pagesize.c.
IReadBlockReq(g, xblk, yblk, m_band, m_l) == ILSize(xblk, yblk, 0, m_band \div g.c, m_l)

IWriteBlockReq(g, xblk, yblk, m_band, m_l) == ILSize(xblk, yblk, 0, m_band \div g.c, m_l)

FetchBlockReq(g, xblk, yblk, m_band, m_l) == ILSize(xblk, yblk, 0, m_band \div g.c, m_l)

\* The coordinate of the band itself instead of its group's.
FetchClonedBlockReq_perBand(g, xblk, yblk, m_band, m_l) ==
    ILSize(xblk, yblk, 0, m_band, m_l)

FetchClonedBlockReq(g, xblk, yblk, m_band, m_l) ==
    ILSize(xblk, yblk, 0, m_band \div g.c, m_l)

\* The tiles of one dimension at a level: each level halves the one
\* before, rounding up.
RECURSIVE LevelTiles(_, _)
LevelTiles(n, l) == IF l = 0 THEN n ELSE (LevelTiles(n, l - 1) + 1) \div 2

TilesPerRow(g, l) == LevelTiles(g.tx, l)

TilesPerGroup(g, l) == LevelTiles(g.tx, l) * LevelTiles(g.ty, l)

\* The number of band groups of a tile region.
Groups(g) == NBands \div g.c

\* base(level): the tiles of all finer levels.
RECURSIVE LevelBase(_, _)
LevelBase(g, l) ==
    IF l = 0 THEN 0 ELSE LevelBase(g, l - 1) + Groups(g) * TilesPerGroup(g, l - 1)

\* IdxOffset(req, img), in index entries.
IdxOffset(req, g) ==
    LevelBase(g, req.l) + req.c * TilesPerGroup(g, req.l)
        + req.y * TilesPerRow(g, req.l) + req.x

\* The tile grids of a dataset: the tiles of level 0 and the bands of a
\* page.
Grids == {[tx |-> tx, ty |-> ty, c |-> cc] :
             tx \in 1 .. MaxGrid, ty \in 1 .. MaxGrid, cc \in {1, NBands}}

\* The coordinates of the tiles of a grid.
Coords(g) ==
    {ILSize(x, y, 0, c, l) :
        x \in 0 .. (MaxGrid - 1), y \in 0 .. (MaxGrid - 1),
        c \in 0 .. (NBands - 1), l \in 0 .. MaxLevel}

InGrid(g, q) ==
    /\ q.x < LevelTiles(g.tx, q.l) /\ q.y < LevelTiles(g.ty, q.l)
    /\ q.c < Groups(g)

\* The four handlers locate block (xblk, yblk) of a band at a level.
IdxOffsetStep ==
    /\ calc.op = "none"
    /\ \E g \in Grids, m_band \in Bands, m_l \in 0 .. MaxLevel :
         \E xblk \in 0 .. (LevelTiles(g.tx, m_l) - 1),
            yblk \in 0 .. (LevelTiles(g.ty, m_l) - 1) :
            calc' = [op |-> "IdxOffset", g |-> g, xblk |-> xblk, yblk |-> yblk,
                     m_band |-> m_band, m_l |-> m_l,
                     read |-> IdxOffset(IReadBlockReq(g, xblk, yblk, m_band, m_l), g),
                     write |-> IdxOffset(IWriteBlockReq(g, xblk, yblk, m_band, m_l), g),
                     fetch |-> IdxOffset(FetchBlockReq(g, xblk, yblk, m_band, m_l), g),
                     clone |-> IdxOffset(FetchClonedBlockReq(g, xblk, yblk, m_band, m_l), g)]
    /\ UNCHANGED <<storevars, tool>>

-----------------------------------------------------------------------------
(* DeflateBlock on a buffer *)

\* The inputs of DeflateBlock: the bytes at src.buffer, and the space
\* past them, which its callers leave at least one byte of.
DeflateInputs == UNION {[1 .. n -> 0 .. MaxVal] : n \in 1 .. PagePixels}

ExtraSizes(n) == {1} \cup ((n + DeflateSlack - 2) .. (n + DeflateSlack + 2))

\* DeflateBlock is applied to a buffer of src.size + extrasize bytes; mem
\* is that buffer after the call.
DeflateBlockStep ==
    /\ calc.op = "none"
    /\ \E f \in DeflateInputs, fail \in BOOLEAN :
         \E extrasize \in ExtraSizes(Len(f)) :
            LET bytes == Arr(f)
                mem == bytes \o Rep(extrasize, 170)
                d == DeflateBlock(bytes, extrasize, fail)
            IN calc' = [op |-> "DeflateBlock", bytes |-> bytes,
                        extrasize |-> extrasize, fail |-> fail,
                        ok |-> d.ok, temp |-> d.temp, at |-> d.at,
                        size |-> IF d.ok THEN Len(d.out) ELSE Len(bytes),
                        mem |-> IF d.ok THEN Poke(mem, d.at, d.out) ELSE mem]
    /\ UNCHANGED <<storevars, tool>>

-----------------------------------------------------------------------------
(* mrf_insert: units *)

\* Coordinates are whole numbers of a unit of 0.005; a target pixel is
\* OutRes units wide and high and a block is TileSize pixels a side.
Epsilon == 2
OutRes == 2000
TileSize == 2
BlockUnits == TileSize * OutRes

-----------------------------------------------------------------------------
(* ClippedRasterIO on a band *)

\* A band of xs by ys pixels; the pixel at (x, y) holds base + x + y * xs.
Band(xs, ys, base) == [xs |-> xs, ys |-> ys, base |-> base]

BandPix(band, x, y) == band.base + x + y * band.xs

\* band->RasterIO(GF_Read, ...) into the memory at ptr elements from the
\* start of buffer: a window that is not within the band is refused; the
\* window is resampled to the nBufXSize by nBufYSize pixels of the buffer,
\* each taking the source pixel nearest to its centre.  ub tells that
\* memory outside the buffer was written.
BandRasterIO(band, nXOff, nYOff, nXSize, nYSize, buffer, ptr, nBufXSize, nBufYSize, nPixelSpace, nLineSpace) ==
    LET win == [xoff |-> nXOff, yoff |-> nYOff, xsize |-> nXSize, ysize |-> nYSize]
        valid == /\ nXOff >= 0 /\ nYOff >= 0 /\ nXSize >= 1 /\ nYSize >= 1
                 /\ nXOff + nXSize <= band.xs /\ nYOff + nYSize <= band.ys
        Cells == (0 .. (nBufXSize - 1)) \X (0 .. (nBufYSize - 1))
        At(c) == ptr + c[2] * nLineSpace + c[1] * nPixelSpace
        Val(c) == BandPix(band, nXOff + ((2 * c[1] + 1) * nXSize) \div (2 * nBufXSize),
                                nYOff + ((2 * c[2] + 1) * nYSize) \div (2 * nBufYSize))
    IN IF ~valid
       THEN [ret |-> "CE_Failure", buf |-> buffer, ub |-> FALSE, win |-> win]
       ELSE [ret |-> "CE_None",
             buf |-> Arr([q \in 1 .. Len(buffer) |->
                            IF \E c \in Cells : At(c) = q - 1
                            THEN Val(CHOOSE c \in Cells : At(c) = q - 1)
                            ELSE buffer[q]]),
             ub |-> \E c \in Cells : At(c) < 0 \/ At(c) >= Len(buffer),
             win |-> win]

\* ClippedRasterIO(band, GF_Read, ...): pData is ptr elements from the
\* start of buffer.
ClippedRasterIO(band, nXOff, nYOff, nXSize, nYSize, buffer, ptr, nBufXSize, nBufYSize, nPixelSpace, nLineSpace) ==
    IF /\ nXOff >= 0 /\ nXOff + nXSize <= band.xs
       /\ nYOff >= 0 /\ nYOff + nYSize <= band.ys
    THEN BandRasterIO(band, nXOff, nYOff, nXSize, nYSize, buffer, ptr,
                      nBufXSize, nBufYSize, nPixelSpace, nLineSpace)
    ELSE LET \* clip on X: the start of the line, then its end
             ptr1 == IF nXOff < 0 THEN ptr + nXOff * nPixelSpace ELSE ptr
             xsz1 == IF nXOff < 0 THEN nXSize + nXOff ELSE nXSize
             xoff == IF nXOff < 0 THEN 0 ELSE nXOff
             xsz2 == IF xoff + xsz1 > band.xs THEN band.xs - xoff ELSE xsz1
             \* clip on Y: the start of the column, then its end
             ptr2 == IF nYOff < 0 THEN ptr1 + nLineSpace ELSE ptr1
             ysz1 == IF nYOff < 0 THEN nYSize + nYOff ELSE nYSize
             yoff == IF nYOff < 0 THEN 0 ELSE nYOff
             ysz2 == IF yoff + ysz1 > band.ys THEN band.ys - yoff ELSE ysz1
         IN BandRasterIO(band, xoff, yoff, xsz2, ysz2, buffer, ptr2,
                         nBufXSize, nBufYSize, nPixelSpace, nLineSpace)

\* ClippedRasterIO reads a window of TileSize pixels a side anywhere on
\* or about a band into a buffer of that size.  The pixel values of the
\* band start at 100 and the buffer holds 0 all over before the call.
\* Writing outside the buffer may end the run or go unnoticed.
ClippedRasterIOStep ==
    /\ calc.op = "none"
    /\ \E xs \in 1 .. MaxBand, ys \in 1 .. MaxBand,
          nXOff \in (0 - MaxOff) .. MaxBand, nYOff \in (0 - MaxOff) .. MaxBand :
          LET r == ClippedRasterIO(Band(xs, ys, 100), nXOff, nYOff, TileSize, TileSize,
                                   Rep(TileSize * TileSize, 0), 0,
                                   TileSize, TileSize, 1, TileSize)
          IN \E crash \in (IF r.ub THEN BOOLEAN ELSE {FALSE}) :
                calc' = [op |-> "ClippedRasterIO", band |-> Band(xs, ys, 100),
                         nXOff |-> nXOff, nYOff |-> nYOff,
                         ret |-> IF crash THEN "crash" ELSE r.ret,
                         buf |-> r.buf, ub |-> r.ub, win |-> r.win]
    /\ UNCHANGED <<storevars, tool>>

-----------------------------------------------------------------------------
(* The constructor: deflate_flags *)

\* The flags of the deflate wrapper: the level in the low four bits, a
\* bit each for the gzip and the raw framing.
ZFLAG_LMASK == 15
ZFLAG_GZ == 16
ZFLAG_RAW == 32

\* The strategies of zlib the option Z_STRATEGY can name.
ZStrategy == [Z_FILTERED |-> 1, Z_HUFFMAN_ONLY |-> 2, Z_RLE |-> 3, Z_FIXED |-> 4]

RECURSIVE BitOr(_, _)
BitOr(a, b) ==
    IF a = 0 THEN b
    ELSE IF b = 0 THEN a
    ELSE (IF a % 2 = 1 \/ b % 2 = 1 THEN 1 ELSE 0) + 2 * BitOr(a \div 2, b \div 2)

ZStrategies == DOMAIN ZStrategy

\* The option Z_STRATEGY is not given.
NoStrategy == "NULL"

\* deflate_flags as the constructor sets it from img.quality and the
\* options GZ, RAWZ and Z_STRATEGY.
DeflateFlags(quality, gz, rawz, zstrategy) ==
    LET f0 == quality \div 10
        f1 == IF gz THEN BitOr(f0, ZFLAG_GZ)
              ELSE IF rawz THEN BitOr(f0, ZFLAG_RAW)
              ELSE f0
        zv == IF zstrategy = "Z_HUFFMAN_ONLY" THEN ZStrategy.Z_HUFFMAN_ONLY
              ELSE IF zstrategy = "Z_RLE" THEN ZStrategy.Z_RLE
              ELSE IF zstrategy = "Z_FILTERED" THEN ZStrategy.Z_FILTERED
              ELSE IF zstrategy = "Z_FIXED" THEN ZStrategy.Z_FIXED
              ELSE 0
    IN IF zstrategy # NoStrategy THEN BitOr(f1, zv * 64) ELSE f1

\* A band is constructed for a quality and a set of options.
ConstructorStep ==
    /\ calc.op = "none"
    /\ \E quality \in 0 .. MaxQuality, gz \in BOOLEAN, rawz \in BOOLEAN,
          zstrategy \in ZStrategies \cup {NoStrategy, "Z_DEFAULT"} :
          calc' = [op |-> "constructor", quality |-> quality, gz |-> gz, rawz |-> rawz,
                   zstrategy |-> zstrategy,
                   deflate_flags |-> DeflateFlags(quality, gz, rawz, zstrategy)]
    /\ UNCHANGED <<storevars, tool>>

-----------------------------------------------------------------------------
(* The band loops of IWriteBlock and RB over a dataset of several groups *)

\* The block of band b of byte data: its pixels hold 10 + b.
GroupBlock(b) == Rep(PagePixels, 10 + b)

\* The band loop of IWriteBlock for a dataset of nBands bands and pages
\* of cstride bands: every band of the dataset whose block is at hand
\* (the band written, or in the block cache) is copied at element iBand
\* of tbuffer with a stride of cstride.
RECURSIVE AssemblePage(_, _, _, _, _)
AssemblePage(cstride, nBands, resident, iBand, tbuffer) ==
    IF iBand >= nBands THEN tbuffer
    ELSE IF iBand \notin resident
    THEN AssemblePage(cstride, nBands, resident, iBand + 1, tbuffer)
    ELSE AssemblePage(cstride, nBands, resident, iBand + 1,
                      cpy_stride_out(tbuffer, iBand, GroupBlock(iBand),
                                     PagePixels, cstride, 1))

\* The band loop of RB: every band i of the dataset gets the elements
\* i, i + cstride, ... of poDS->pbuffer.
SplitPage(cstride, nBands, pb) ==
    [i \in 0 .. (nBands - 1) |-> cpy_stride_in(pb, i, PagePixels, cstride, 1)]

\* The page of the group grp as it is stored: band b of the group at the
\* elements b % cstride, b % cstride + cstride, ...
GroupPage(cstride, grp) ==
    Arr([p \in 1 .. (PagePixels * cstride) |-> 10 + grp * cstride + ((p - 1) % cstride)])

\* A block of band m_band is written with the blocks of the bands in
\* resident at hand, and the stored page of its group is split by RB.
GroupPageStep ==
    /\ calc.op = "none"
    /\ \E cstride \in 2 .. MaxStride, groups \in 1 .. MaxGroups, gb \in GarbageBytes :
        LET nBands == cstride * groups
            psb == PagePixels * cstride
        IN \E m_band \in 0 .. (nBands - 1), cached \in SUBSET (0 .. (nBands - 1)) :
             LET resident == cached \cup {m_band}
                 grp == m_band \div cstride
             IN calc' = [op |-> "page", cstride |-> cstride, nBands |-> nBands,
                         band |-> m_band, gb |-> gb, psb |-> psb,
                         wrBands |-> resident,
                         tbuffer |-> AssemblePage(cstride, nBands, resident, 0,
                                                  Rep(2 * psb + PbSlack, gb)),
                         rbBands |-> 0 .. (nBands - 1),
                         split |-> SplitPage(cstride, nBands,
                                             GroupPage(cstride, grp) \o Rep(PbSlack, gb))]
    /\ UNCHANGED <<storevars, tool>>

\* The helpers applied on their own, without a store.
NoStore ==
    /\ cfg = CHOOSE c \in StoreConfigs : TRUE
    /\ idx = [p \in Positions |-> Entry(0, 0)]
    /\ dat = << >>
    /\ pbuffer = << >>
    /\ written = [p \in Positions |-> NoTile]
    /\ last = NoOut
    /\ nops = 0
    /\ nwrites = 0

InitCalc == NoStore /\ calc = NoCalc /\ tool = NoTool

NextCalc == IdxOffsetStep \/ DeflateBlockStep \/ ClippedRasterIOStep \/ ConstructorStep
               \/ GroupPageStep

SpecCalc == InitCalc /\ [][NextCalc]_vars

-----------------------------------------------------------------------------
(* mrf_insert: main and state::patch *)


Abs(a) == IF a < 0 THEN 0 - a ELSE a

\* int(n / m) of C for m > 0: the quotient, truncated towards zero.
CInt(n, m) == IF n >= 0 THEN n \div m ELSE 0 - ((0 - n) \div m)

\* int(d / res + 0.5)
IntHalf(d, res) == CInt(2 * d + res, 2 * res)

Bounds(lx, ux, uy, ly) == [lx |-> lx, ux |-> ux, uy |-> uy, ly |-> ly]

CPLIsEqual(a, b) == a = b

outside_bounds(inside, outside) ==
    \/ inside.lx + Epsilon < outside.lx /\ ~CPLIsEqual(inside.lx, outside.lx)
    \/ inside.ux > outside.ux /\ ~CPLIsEqual(inside.ux, outside.ux)
    \/ inside.ly < outside.ly /\ ~CPLIsEqual(inside.ly, outside.ly)
    \/ inside.uy - Epsilon > outside.uy /\ ~CPLIsEqual(inside.uy, outside.uy)

\* The tolerance of 1/1000 of the resolution, on both axes.
ResMismatch(in, out) ==
    \/ Abs(in.resx - out.resx) * ResTolerance > Abs(out.resx)
    \/ Abs(in.resy - out.resy) * ResTolerance > Abs(out.resy)

\* pix_bbox and blocks_bbox: the location of the source in target pixels
\* and then in target blocks; res.y is negative, resy is its magnitude.
PixBox(in, out) ==
    Bounds(IntHalf(in.bbox.lx - out.bbox.lx, in.resx),
           IntHalf(in.bbox.ux - out.bbox.lx, in.resx),
           IntHalf(out.bbox.uy - in.bbox.uy, in.resy),
           IntHalf(out.bbox.uy - in.bbox.ly, in.resy))

BlocksBox(pix) ==
    Bounds(IntHalf(pix.lx, TileSize), IntHalf(pix.ux, TileSize),
           IntHalf(pix.uy, TileSize), IntHalf(pix.ly, TileSize))

Region(x, y, w, h) == [x |-> x, y |-> y, w |-> w, h |-> h]

NoRegion == Region(0, 0, 0, 0)

\* BlockXOut, BlockYOut, WidthOut, HeightOut of the base level.
BaseRegion(b) == Region(b.lx, b.uy, b.ux - b.lx, b.ly - b.uy)

\* A level step that halves the extent without the block rounding.
LevelStepRegion_noBlockRounding(r) ==
    Region(r.x \div 2, r.y \div 2, r.w \div 2 + (r.w % 2), r.h \div 2 + (r.h % 2))

\* A level step whose start block rounds up.
LevelStepRegion_startUp(r) ==
    Region((r.x + 1) \div 2, (r.y + 1) \div 2,
           r.w \div 2 + (r.w % 2) + (r.x % 2), r.h \div 2 + (r.h % 2) + (r.y % 2))

\* Scale down by two: the extent rounds up and gets the block rounding,
\* the start block rounds down.
LevelStepRegion(r) ==
    Region(r.x \div 2, r.y \div 2,
           r.w \div 2 + (r.w % 2) + (r.x % 2), r.h \div 2 + (r.h % 2) + (r.y % 2))

\* A flush that writes nothing out.
GDALFlushCache_none(t) == t

\* GDALFlushCache(hDataset): the target's pending writes are written out.
GDALFlushCache(t) ==
    [t EXCEPT !.dirty = FALSE, !.ev = Append(t.ev, [e |-> "flush", sl |-> 0 - 1, r |-> NoRegion])]

\* The loop of main goes on after a failed patch.
PatchFailed_goesOn(t) ==
    [t EXCEPT !.attempts = Append(t.attempts, FALSE), !.i = t.i + 1, !.pc = "loop"]

\* patch returned false: main throws 2 and returns it.
PatchFailed(t) ==
    [t EXCEPT !.attempts = Append(t.attempts, FALSE), !.ret = 2, !.pc = "exit"]

\* img_info(hDS): the bounding box is the origin and the raster size
\* times the resolution; res.y is negative, resy is its magnitude.
img_info(opens, lx, uy, sizex, sizey, resx, resy) ==
    [opens |-> opens, bbox |-> Bounds(lx, lx + resx * sizex, uy, uy - resy * sizey),
     sizex |-> sizex, sizey |-> sizey, resx |-> resx, resy |-> resy]

\* The pixels of the target the tool is given.
TargetX == (MaxBlockX + MaxWidth) * TileSize
TargetY == (MaxBlockY + MaxHeight) * TileSize

TargetBox == img_info(TRUE, 0, 0, TargetX, TargetY, OutRes, OutRes).bbox

Target(opens, mrf, ovr) ==
    [img_info(opens, 0, 0, TargetX, TargetY, OutRes, OutRes) EXCEPT !.opens = opens]
        @@ [mrf |-> mrf, ovr |-> ovr]

\* A source that covers whole target blocks.
BlockSource(x, y, w, h) ==
    img_info(TRUE, x * BlockUnits, 0 - y * BlockUnits, w * TileSize, h * TileSize,
             OutRes, OutRes)

\* Sources that cover the target, but for an origin or a resolution that
\* is off, and a source that does not open.
EdgeSources ==
    {img_info(o, 0, 0, TargetX, TargetY, OutRes, OutRes) : o \in BOOLEAN}
    \cup {img_info(TRUE, 0, 0, TargetX - 1, TargetY, OutRes + d, OutRes) : d \in 1 .. 3}
    \cup {img_info(TRUE, 0, 0, TargetX, TargetY - 1, OutRes, OutRes + d) : d \in {3}}
    \cup {img_info(TRUE, 0 - d, 0, TargetX, TargetY, OutRes, OutRes) : d \in {1, 3}}
    \cup {img_info(TRUE, 0, d, TargetX, TargetY, OutRes, OutRes) : d \in {1, 3}}
    \cup {img_info(TRUE, d, 0, TargetX, TargetY, OutRes, OutRes) : d \in {1}}
    \cup {img_info(TRUE, 0, 0 - d, TargetX, TargetY, OutRes, OutRes) : d \in {1}}

SeqsUpTo(S, n) == UNION {[1 .. k -> S] : k \in 0 .. n}

\* The state of main before line 393: the file names are split into the
\* sources and the target, the options are in State.
Start(target, sources, overlays, start_level, stop_level) ==
    [pc |-> "main", target |-> target, sources |-> sources,
     overlays |-> overlays, start_level |-> start_level, stop_level |-> stop_level,
     i |-> 0, ret |-> 0, attempts |-> << >>,
     blocks |-> Bounds(0, 0, 0, 0), base |-> NoRegion, region |-> NoRegion,
     prev |-> NoRegion, sl |-> 0, dirty |-> FALSE, basewrites |-> 0, ev |-> << >>,
     tiles |-> << >>,
     args |-> [start |-> start_level, stop |-> stop_level],
     entry |-> [start |-> start_level, stop |-> stop_level]]

\* The tool has been started and has not read its command line.
Started ==
    [Start(Target(TRUE, TRUE, 0), << >>, FALSE, 0, 0 - 1) EXCEPT !.pc = "start"]

ToolStep(t) == tool' = t /\ UNCHANGED <<storevars, calc>>

\* main, 393-400: without a source the usage is printed.
Enter(r) ==
    ToolStep(IF r.sources = << >>
             THEN [r EXCEPT !.ret = 1, !.pc = "exit"]
             ELSE [r EXCEPT !.i = 1, !.pc = "loop"])

\* main, 363-400: the command line is read.  The runs are over one source
\* placed anywhere on the block grid with any level range, over one source
\* of any size in pixels that starts on a block, and over several sources
\* with a target or a source that may be refused.
Main ==
    /\ tool.pc = "start"
    /\ \/ \E ovr \in 0 .. MaxLevel, x \in 0 .. MaxBlockX, y \in 0 .. MaxBlockY,
             w \in 1 .. MaxWidth, h \in 1 .. MaxHeight, o \in BOOLEAN,
             s \in 0 .. MaxLevel, e \in (0 - 1) .. MaxLevel :
             Enter(Start(Target(TRUE, TRUE, ovr), <<BlockSource(x, y, w, h)>>, o, s, e))
       \/ \E x \in 0 .. 1, y \in 0 .. 1, sx \in 1 .. MaxBand, sy \in 1 .. MaxBand,
             o \in BOOLEAN :
             Enter(Start(Target(TRUE, TRUE, 1),
                         <<img_info(TRUE, x * BlockUnits, 0 - y * BlockUnits, sx, sy,
                                    OutRes, OutRes)>>, o, 0, 0 - 1))
       \/ \E to \in BOOLEAN, tm \in BOOLEAN, o \in BOOLEAN,
             ss \in SeqsUpTo(EdgeSources, MaxSources) :
             Enter(Start(Target(to, tm, 1), Arr(ss), o, 0, 0 - 1))

\* main, 404-405: the next source, or the end of the loop.
MainLoop ==
    /\ tool.pc = "loop"
    /\ ToolStep(IF tool.i > Len(tool.sources)
                THEN [tool EXCEPT !.pc = "exit"]
                ELSE [tool EXCEPT !.pc = "open", !.blocks = Bounds(0, 0, 0, 0),
                                  !.base = NoRegion, !.region = NoRegion,
                                  !.prev = NoRegion, !.sl = 0, !.dirty = FALSE,
                                  !.basewrites = 0, !.ev = << >>, !.tiles = << >>,
                                  !.entry = [start |-> tool.start_level,
                                             stop |-> tool.stop_level]])

\* patch, 88-133: the target and the source are opened.
PatchOpen ==
    /\ tool.pc = "open"
    /\ ToolStep(IF ~tool.target.opens \/ ~tool.target.mrf
                   \/ ~tool.sources[tool.i].opens
                THEN PatchFailed(tool)
                ELSE [tool EXCEPT !.pc = "check"])

\* patch, 142-191: the bounds and the resolutions are compared and the
\* source is located in target blocks.
PatchCheck ==
    /\ tool.pc = "check"
    /\ LET in == tool.sources[tool.i]
           out == tool.target
       IN ToolStep(IF outside_bounds(in.bbox, out.bbox) \/ ResMismatch(in, out)
                   THEN PatchFailed(tool)
                   ELSE [tool EXCEPT !.blocks = BlocksBox(PixBox(in, out)),
                                     !.pc = "base"])

\* The pixel band b of the target holds at (px, py) when the patch
\* starts; the pixels of band b of the source start at 1000 * (b + 1).
TgtPix(b, px, py) == 10000 * (b + 1) + px + py * TargetX

\* dst_b[band]->RasterIO(GF_Read, x * tsz_x, y * tsz_y, ...): the block
\* of the target.
TargetBlock(b, x, y) ==
    Arr([q \in 1 .. (TileSize * TileSize) |->
            TgtPix(b, x * TileSize + ((q - 1) % TileSize),
                      y * TileSize + ((q - 1) \div TileSize))])

\* The y, x and band of the iterations of the base loop, in its order.
BaseOrder(b, bands) ==
    LET w == b.ux - b.lx
        h == b.ly - b.uy
    IN IF w <= 0 \/ h <= 0 THEN << >>
       ELSE [k \in 1 .. (h * w * bands) |->
                [y |-> b.uy + ((k - 1) \div (w * bands)),
                 x |-> b.lx + (((k - 1) \div bands) % w),
                 band |-> (k - 1) % bands]]

\* The test of 224-225: && binds tighter than ||.
NeedsPadding(sox, soy, xs, ys) ==
    \/ sox < 0
    \/ (sox + TileSize > xs /\ soy < 0)
    \/ soy + TileSize > ys

\* patch, 215-252: one block after the other is read into the one buffer
\* and written to the target; the results of the reads are not looked at.
RECURSIVE BaseLoop(_, _, _, _, _, _)
BaseLoop(in, out, b, order, buffer, acc) ==
    IF order = << >> THEN acc
    ELSE LET it == Head(order)
             soy == IntHalf(TileSize * (it.y - b.uy) * in.resx, out.resx)
             sox == IntHalf(TileSize * (it.x - b.lx) * in.resx, out.resx)
             pad == NeedsPadding(sox, soy, in.sizex, in.sizey)
             b1 == IF pad THEN TargetBlock(it.band, it.x, it.y) ELSE buffer
             r == ClippedRasterIO(Band(in.sizex, in.sizey, 1000 * (it.band + 1)),
                                  sox, soy, TileSize, TileSize,
                                  b1, 0, TileSize, TileSize, 1, TileSize)
         IN BaseLoop(in, out, b, Tail(order), r.buf,
                     Append(acc, [x |-> it.x, y |-> it.y, band |-> it.band,
                                  sox |-> sox, soy |-> soy, pad |-> pad,
                                  buf |-> r.buf]))

\* patch, 205-255: the blocks of the base level are written when the
\* start level is 0.  The buffer holds whatever the allocation left.
InsertBase ==
    /\ tool.pc = "base"
    /\ \E g \in GarbageBytes :
        LET b == tool.blocks
            order == IF tool.start_level = 0 THEN BaseOrder(b, ToolBands) ELSE << >>
            n == Len(order) \div ToolBands
        IN ToolStep([tool EXCEPT !.basewrites = n,
                                 !.dirty = n > 0,
                                 !.tiles = BaseLoop(tool.sources[tool.i], tool.target, b,
                                                    order, Rep(TileSize * TileSize, g),
                                                    << >>),
                                 !.ev = IF n > 0
                                        THEN Append(tool.ev, [e |-> "base", sl |-> 0 - 1, r |-> NoRegion])
                                        ELSE tool.ev,
                                 !.pc = "flush"])

\* patch, 264-281: the source is closed and the target flushed; with -r
\* the level loop is set up.
FlushBase ==
    /\ tool.pc = "flush"
    /\ LET t == GDALFlushCache(tool)
       IN ToolStep(IF t.overlays
                   THEN [t EXCEPT !.base = BaseRegion(t.blocks),
                                  !.region = BaseRegion(t.blocks),
                                  !.stop_level = IF t.stop_level = 0 - 1
                                                 THEN t.target.ovr ELSE t.stop_level,
                                  !.start_level = t.start_level - 1,
                                  !.sl = 0, !.pc = "level"]
                   ELSE [t EXCEPT !.pc = "close"])

\* A level range without its upper end.
InRange_noStop(t) == t.sl >= t.start_level

InRange(t) == t.sl >= t.start_level /\ t.sl < t.stop_level

\* patch, 284-287: PatchOverview for a source level within the range.
PatchOverviewStep ==
    /\ tool.pc = "level"
    /\ tool.sl < tool.target.ovr
    /\ InRange(tool)
    /\ ToolStep([tool EXCEPT !.dirty = TRUE,
                             !.ev = Append(tool.ev, [e |-> "patch", sl |-> tool.sl, r |-> tool.region]),
                             !.pc = "levelflush"])

\* patch, 288: the flush after PatchOverview.
LevelFlush ==
    /\ tool.pc = "levelflush"
    /\ ToolStep([GDALFlushCache(tool) EXCEPT !.pc = "scale"])

\* patch, 284 and 291-297: the region of the next level, whether the
\* level was patched or skipped.
ScaleDown ==
    /\ tool.pc = "scale" \/ (tool.pc = "level" /\ tool.sl < tool.target.ovr
                                /\ ~InRange(tool))
    /\ ToolStep([tool EXCEPT !.prev = tool.region,
                             !.region = LevelStepRegion(tool.region),
                             !.sl = tool.sl + 1, !.pc = "level"])

\* patch, 302-304, and main, 408: the last flush, the target is closed
\* and patch returns true.
PatchClose ==
    /\ tool.pc = "close" \/ (tool.pc = "level" /\ tool.sl >= tool.target.ovr)
    /\ LET t == GDALFlushCache(tool)
       IN ToolStep([t EXCEPT !.attempts = Append(t.attempts, TRUE),
                             !.i = t.i + 1, !.pc = "loop"])

InitInsert == NoStore /\ calc = NoCalc /\ tool = Started

NextInsert ==
    \/ Main
    \/ MainLoop
    \/ PatchOpen
    \/ PatchCheck
    \/ InsertBase
    \/ FlushBase
    \/ PatchOverviewStep
    \/ LevelFlush
    \/ ScaleDown
    \/ PatchClose

SpecInsert == InitInsert /\ [][NextInsert]_vars

-----------------------------------------------------------------------------
(* Properties *)

OK == "CE_None"

LastPos == Req(cfg, last.band, last.tile)

\* The fill value of one element, and a block and a page of it.
FillElem(c) ==
    IF ~c.hasNoData THEN Rep(c.vsz, 0)
    ELSE IF c.vsz = 1 THEN <<c.ndv % 256>> ELSE elemBytes(c.ndv, c.vsz)

FillOf(c, n) == Arr([p \in 1 .. n |-> FillElem(c)[((p - 1) % c.vsz) + 1]])

\* The store keeps what it fetches: a cache of a raster, or a clone whose
\* data file can be written.
Persisting(c) == c.source = "raster" \/ (c.source = "clone" /\ ~c.dataRO)

\* C1: IReadBlock on a tile whose index entry has size 0 returns a fill
\* buffer and does not fetch when the store has no source, is open for
\* update, has a read-only index or the entry's offset is not 0; in every
\* other size-0 case it enters FetchBlock; with a size it neither fills
\* nor fetches.
C1_ReadDispatch ==
    (last.op = "read" /\ last.path # "idxfail") =>
        IF last.pre.size = 0
        THEN IF \/ cfg.source = "none" \/ cfg.update \/ cfg.idxRO
                \/ last.pre.offset # 0
             THEN /\ last.path = "fill" /\ ~last.fetched /\ last.ret = OK
                  /\ last.buf = FillOf(cfg, blockSizeBytes(cfg))
             ELSE last.fetched /\ last.path \in {"fetch", "clone"}
        ELSE last.path = "decode" /\ ~last.fetched

\* A read of a confirmed-empty tile of a cache with a writable index is
\* answered with fill.
C1_Witness ==
    /\ last.op = "read" /\ last.path = "fill" /\ last.pre = Entry(EmptyMark, 0)
    /\ cfg.source = "raster" /\ ~cfg.update /\ ~cfg.idxRO

\* The block of band that a fetch of the source image sp must deliver: the
\* nx source pixels of the window, then the fill value.
ExpectedBlock(c, sp, band, nx) ==
    Arr([p \in 1 .. blockSizeBytes(c) |->
            LET e == (p - 1) \div c.vsz
            IN IF e < nx
               THEN elemBytes(sp[band + 1][e + 1], c.vsz)[((p - 1) % c.vsz) + 1]
               ELSE FillElem(c)[((p - 1) % c.vsz) + 1]])

\* The pixels of the source inside tile's window.
WindowPixels(c, tile) == Min(PagePixels, c.fullx - tile * PagePixels)

\* Every pixel of every band of the tile handed to the last write is the
\* NoData value, or zero when none is declared.
WroteAllNoData ==
    /\ last.op = "write"
    /\ last.inbuf = FillOf(cfg, blockSizeBytes(cfg))
    /\ \A b \in DOMAIN last.inothers : last.inothers[b] = FillOf(cfg, blockSizeBytes(cfg))

\* The tile at the position of the last call was written with every pixel
\* of every band at the NoData value.
HoldsAllNoData ==
    /\ written[LastPos].kind \in {"elided", "stored"}
    /\ \A b \in DOMAIN written[LastPos].blocks :
          written[LastPos].blocks[b] = FillOf(cfg, blockSizeBytes(cfg))

ElidedAndReadBack ==
    /\ (WroteAllNoData /\ last.ret = OK) =>
          (idx[LastPos].size = 0 /\ Len(dat) = last.datlen)
    /\ (last.op = "read" /\ last.ret = OK /\ HoldsAllNoData) =>
          last.buf = FillOf(cfg, blockSizeBytes(cfg))

\* The formats whose all-NoData tile the emptiness test recognises.
Elidable(c) == c.vsz = 1 \/ ~c.hasNoData \/ c.ndv = 0

\* C2 as stated: for every datatype and NoData configuration, a write of a
\* tile whose every pixel is NoData (zero when undeclared) records a
\* zero-length entry and appends nothing, and a later read returns a buffer
\* of NoData.
C2_Original == ElidedAndReadBack

\* C2, amended: the same for byte data and for data whose NoData value is
\* undeclared or 0; a wider datatype with a nonzero NoData value is stored.
C2_ElidedWhenEmpty == Elidable(cfg) => ElidedAndReadBack

\* A tile of byte data at a nonzero NoData value was elided and is read back.
C2_Witness ==
    /\ last.op = "read" /\ last.ret = OK /\ last.path = "fill"
    /\ HoldsAllNoData /\ written[LastPos].kind = "elided"
    /\ cfg.vsz = 1 /\ cfg.hasNoData /\ cfg.ndv # 0
    /\ idx[LastPos].size = 0 /\ dat = << >>

\* C3: a tile written by IWriteBlock (every band of an interleaved group
\* resident) and read by IReadBlock comes back bit for bit, for every
\* element width, byte order, interleave mode and deflate setting.
C3_RoundTrip ==
    (/\ last.op = "read" /\ last.ret = OK /\ last.path = "decode"
     /\ written[LastPos].kind = "stored"
     /\ \A b \in DOMAIN written[LastPos].blocks : written[LastPos].blocks[b] # NULL)
    => /\ last.buf = written[LastPos].blocks[last.band]
       /\ \A b \in DOMAIN last.others : last.others[b] = written[LastPos].blocks[b]

\* C4: when the store's byte order differs from the host's, the raw page is
\* swapped exactly once before Compress on every encoding path and exactly
\* once after Decompress on the read path.
C4_SwapOnce ==
    needSwap(cfg) =>
        /\ last.compressed = 1 => last.swapsRaw = 1
        /\ (last.op = "read" /\ last.path = "decode" /\ last.ret = OK) => last.swapsRaw = 1

\* C5: on every encoding path a failure of Compress or of the deflate
\* wrapper makes the operation fail without a call of WriteTile.
C5_FailureStops ==
    (last.compressed = 1 /\ ("compress" \in last.F \/ "deflate" \in last.F))
    => (last.ret = "CE_Failure" /\ last.wt = << >>)

\* The bytes decode to a page: through the inflate wrapper when the store
\* deflates, then through the codec.
Decodable(c, bytes) ==
    LET z == ZUnPack(bytes, pageSizeBytes(c) + InflateSlack)
    IN IF c.deflate
       THEN z.ok /\ Decompress(z.out, pageSizeBytes(c)).ok
       ELSE Decompress(bytes, pageSizeBytes(c)).ok

\* C6: every index entry with a size points to that many bytes of the data
\* file holding an encoded tile; WriteTile is only handed size valid encoded
\* bytes; a short read in FetchClonedBlock writes no index entry.
C6_EntriesValid ==
    /\ \A p \in Positions :
          idx[p].size > 0 =>
              /\ idx[p].offset + idx[p].size <= Len(dat)
              /\ Decodable(cfg, SubSeq(dat, idx[p].offset + 1, idx[p].offset + idx[p].size))
    /\ \A i \in DOMAIN last.wt :
          last.wt[i].size > 0 => Decodable(cfg, last.wt[i].bytes)
    /\ "shortread" \in last.F => (last.wt = << >> /\ idx[LastPos] = last.pre)

\* The stores whose reads never store: no source, open for update, a
\* read-only index, or a clone whose data file is read-only.
NonStoring(c) ==
    c.source = "none" \/ c.update \/ c.idxRO \/ (c.source = "clone" /\ c.dataRO)

ReadLeavesStore ==
    last'.op = "read" =>
        /\ NonStoring(cfg) => (idx' = idx /\ dat' = dat)
        /\ (idx' # idx \/ dat' # dat) =>
              (last'.fetched /\ Persisting(cfg) /\ last'.wt # << >>)
        /\ idx' # idx => last'.wt[1].size = idx'[Req(cfg, last'.band, last'.tile)].size

FetchFoundEmpty ==
    IF cfg.source = "clone" THEN last.src = NULL
    ELSE cfg.c = 1 /\ SkipPage(cfg, ExpectedBlock(cfg, last.src, last.band,
                                                  WindowPixels(cfg, last.tile)),
                               blockSizeBytes(cfg))

FetchFoundData ==
    IF cfg.source = "clone" THEN last.src # NULL
    ELSE cfg.c = 1 /\ ~SkipPage(cfg, ExpectedBlock(cfg, last.src, last.band,
                                                   WindowPixels(cfg, last.tile)),
                                blockSizeBytes(cfg))

C9_FetchFillsBuffer ==
    (last.op = "read" /\ last.fetched /\ last.fetchret = OK) =>
        last.buf = IF last.src = NULL THEN FillOf(cfg, blockSizeBytes(cfg))
                   ELSE ExpectedBlock(cfg, last.src, last.band,
                                      WindowPixels(cfg, last.tile))

\* C10: the window FetchBlock requests starts at a nonnegative offset, is
\* at least one pixel and lies inside the source; when it was clipped the
\* whole destination page holds the fill value before the read.
C10_FetchWindow ==
    (last.op = "read" /\ last.rio = 1) =>
        /\ last.win[1] >= 0 /\ last.win[2] >= 1
        /\ last.win[1] + last.win[2] <= cfg.fullx
        /\ last.clip => Take(last.obfilled, pageSizeBytes(cfg))
                           = FillOf(cfg, pageSizeBytes(cfg))

\* The last read was a fetch of a clone with a writable data file, from
\* an entry never touched, and it returned success.
ClonedFetch ==
    /\ last.op = "read" /\ last.path = "clone" /\ last.fetchret = OK
    /\ cfg.source = "clone" /\ ~cfg.dataRO /\ last.pre = Entry(0, 0)

\* The bytes the source store holds for the tile of the last fetch.
SourceBytes == Stored(cfg, PageOf(cfg, last.src))

\* C11: after a successful FetchClonedBlock of a writable clone on a tile
\* never touched, the local entry is empty exactly when the source's is
\* (the caller gets fill); otherwise it has the size of the source entry
\* and the local bytes are the source's bytes, and the re-issued read is
\* served from the local store without entering the fetch path again.
C11_CloneCopies ==
    ClonedFetch =>
        /\ idx[LastPos].size = 0 <=> last.src = NULL
        /\ last.src = NULL =>
              /\ last.buf = FillOf(cfg, blockSizeBytes(cfg))
              /\ last.reissued = "none" /\ Len(dat) = last.datlen
        /\ last.src # NULL =>
              /\ idx[LastPos].size = Len(SourceBytes)
              /\ idx[LastPos].offset + idx[LastPos].size <= Len(dat)
              /\ SubSeq(dat, idx[LastPos].offset + 1,
                        idx[LastPos].offset + idx[LastPos].size) = SourceBytes
              /\ last.reissued = "decode"

\* A writable clone copied a tile with data and served the read from it.
C11_Witness ==
    /\ ClonedFetch /\ last.src # NULL /\ last.reissued = "decode" /\ last.ret = OK
    /\ idx[LastPos].size > 0 /\ cfg.vsz = 2

\* The block is empty for the emptiness test the store applies: the NoData
\* value all over for byte data with a declared NoData value, zero all
\* over otherwise.
EmptyBlock(c, blk) ==
    IF c.vsz = 1 /\ c.hasNoData
    THEN \A i \in DOMAIN blk : blk[i] = c.ndv % 256
    ELSE \A i \in DOMAIN blk : blk[i] = 0

\* The blocks of the bands of the last interleaved write, the caller's and
\* the others'.
WrittenBand(b) == IF b = last.band THEN last.inbuf ELSE last.inothers[b]

\* The page decoded from stored bytes (meaningful when they decode).
DecodedPage(c, bytes) ==
    LET z == ZUnPack(bytes, pageSizeBytes(c) + InflateSlack)
    IN Decompress(IF c.deflate THEN z.out ELSE bytes, pageSizeBytes(c)).out

\* The last interleaved write stored one tile that holds every resident
\* band's block.
StoredTogether ==
    /\ last.path = "store" /\ Len(last.wt) = 1 /\ last.wt[1].size > 0
    /\ idx[LastPos].size = last.wt[1].size
    /\ last.F = {} =>
          \A b \in Bands :
             WrittenBand(b) # NULL =>
                cpy_stride_in(DecodedPage(cfg, last.wt[1].bytes), b,
                              blockSizeBytes(cfg) \div cfg.vsz, cfg.c, cfg.vsz)
                   = WrittenBand(b)

InterleavedWriteDone == last.op = "write" /\ cfg.c > 1 /\ last.ret = OK

\* C12 as stated, a band being empty when every pixel equals the NoData
\* value (zero when none is declared): an interleaved write records a
\* zero-length entry if and only if every band of the group is empty, and
\* otherwise stores all bands together.
C12_Original ==
    InterleavedWriteDone =>
        /\ idx[LastPos].size = 0 <=> WroteAllNoData
        /\ ~WroteAllNoData => StoredTogether

\* C12, amended: the same with a band being empty when it passes the
\* store's emptiness test (NoData-equal for byte data with a declared
\* NoData value, all-zero otherwise); a band that is not resident is not
\* empty.
C12_ElidedIffAllEmpty ==
    InterleavedWriteDone =>
        LET allEmpty == \A b \in Bands :
                           WrittenBand(b) # NULL /\ EmptyBlock(cfg, WrittenBand(b))
        IN /\ idx[LastPos].size = 0 <=> allEmpty
           /\ allEmpty => (last.path = "elide" /\ Len(dat) = last.datlen)
           /\ ~allEmpty => StoredTogether

\* An interleaved write with an empty block from the caller and a band
\* that is not resident was stored.
C12_Witness ==
    /\ InterleavedWriteDone /\ last.path = "store" /\ last.F = {}
    /\ EmptyBlock(cfg, last.inbuf)
    /\ \E b \in Bands \ {last.band} : last.inothers[b] = NULL
    /\ idx[LastPos].size > 0

\* The last call is a read of a deflating store that got the stored bytes.
DeflateRead ==
    /\ last.op = "read" /\ last.path = "decode" /\ cfg.deflate
    /\ "datafp" \notin last.F /\ "read" \notin last.F
    /\ last.pre.offset + last.pre.size <= last.datlen

\* C19: with the deflate option, a failed inflation does not fail the
\* read: Decompress is invoked all the same, on exactly the bytes and
\* size read, and its result is the read's; when the inflation succeeds,
\* Decompress is invoked on the inflated bytes and size.
C19_InflateOrRaw ==
    DeflateRead =>
        /\ last.inf \in {"ok", "fail"} /\ last.dec \in {"ok", "fail"}
        /\ last.readin = SubSeq(dat, last.pre.offset + 1,
                                last.pre.offset + last.pre.size)
        /\ last.inf = "fail" =>
              /\ last.decin = last.readin
              /\ last.ret = Ret(last.dec = "ok")
        /\ last.inf = "ok" =>
              /\ last.decin = ZUnPack(last.readin,
                                      pageSizeBytes(cfg) + InflateSlack).out
              /\ Len(last.decin) = last.pre.size - 1

\* A tile stored without the deflate wrapper was read from a deflating
\* store: the inflation failed and the read succeeded.
C19_Witness ==
    /\ DeflateRead /\ last.inf = "fail" /\ last.dec = "ok" /\ last.ret = OK
    /\ last.F = {}

\* A read whose Decompress failed returns failure without de-interleaving
\* and leaves the index and the data file as they were.
DecodeFailureKeeps ==
    (last'.op = "read" /\ last'.dec = "fail") =>
        /\ last'.ret = "CE_Failure"
        /\ last'.locked = 0 /\ last'.dropped = 0 /\ last'.others = NoOut.others
        /\ cfg.c > 1 => last'.buf = last'.inbuf
        /\ idx' = idx /\ dat' = dat

\* C20: when Decompress fails in IReadBlock the call returns failure, no
\* band's block gets de-interleaved data, and the index entry and the
\* stored bytes are unchanged.
C20_DecodeFailure == [][DecodeFailureKeeps]_vars

\* Decompress failed in a read of an interleaved store.
C20_Witness ==
    /\ last.op = "read" /\ last.dec = "fail" /\ cfg.c > 1
    /\ last.ret = "CE_Failure" /\ idx[LastPos].size > 0

\* The coordinates of a grid that come before q, by level, then band
\* group, then row, then column.
Before(g, q) ==
    {r \in Coords(g) :
        /\ InGrid(g, r)
        /\ \/ r.l < q.l
           \/ r.l = q.l /\ r.c < q.c
           \/ r.l = q.l /\ r.c = q.c /\ r.y < q.y
           \/ r.l = q.l /\ r.c = q.c /\ r.y = q.y /\ r.x < q.x}

Located == calc.op = "IdxOffset"

LocatedCoord ==
    ILSize(calc.xblk, calc.yblk, 0, calc.m_band \div calc.g.c, calc.m_l)

\* C17: IReadBlock, IWriteBlock, FetchBlock and FetchClonedBlock address
\* the same index position for (x, y, band div group width, level); it is
\* base(level) + bandGroup * tilesPerGroup + y * tilesPerRow + x, the
\* number of tiles that come before in level, group, row, column order,
\* so it is injective, shared by the bands of one group, and the
\* positions of different levels do not overlap.
C17_OnePosition ==
    Located =>
        LET g == calc.g
            q == LocatedCoord
        IN /\ calc.write = calc.read /\ calc.fetch = calc.read
           /\ calc.clone = calc.read
           /\ calc.read = LevelBase(g, q.l) + q.c * TilesPerGroup(g, q.l)
                             + q.y * TilesPerRow(g, q.l) + q.x
           /\ calc.read = Cardinality(Before(g, q))
           /\ \A r \in Coords(g) :
                 InGrid(g, r) =>
                    /\ IdxOffset(r, g) = calc.read => r = q
                    /\ r.l < q.l => IdxOffset(r, g) < LevelBase(g, q.l)
                    /\ r.l > q.l => IdxOffset(r, g) >= LevelBase(g, q.l + 1)
           /\ \A b \in Bands :
                 b \div g.c = calc.m_band \div g.c =>
                    IdxOffset(FetchClonedBlockReq(g, calc.xblk, calc.yblk, b, calc.m_l), g)
                       = calc.read

\* The second band of an interleaved group was located at an overview
\* level, past the first column and row.
C17_Witness ==
    /\ Located /\ calc.g.c > 1 /\ calc.m_band > 0 /\ calc.m_l > 0
    /\ calc.xblk > 0 /\ calc.yblk > 0 /\ calc.read > 0

Deflated == calc.op = "DeflateBlock"

\* C18: DeflateBlock allocates a temporary buffer exactly when extrasize
\* is less than src.size + 64; otherwise it compresses into the space
\* past the input and returns src.buffer + the input size, the input
\* being left in place; with the temporary buffer it copies the result
\* over the start of the input and returns src.buffer; in both
\* successful cases src.size is the compressed size.
C18_DeflateInPlace ==
    Deflated =>
        LET n == Len(calc.bytes)
            packed == ZPack(calc.bytes)
        IN /\ calc.temp <=> calc.extrasize < n + 64
           /\ calc.ok =>
                 /\ calc.size = Len(packed)
                 /\ SubSeq(calc.mem, calc.at + 1, calc.at + calc.size) = packed
                 /\ ~calc.temp =>
                       calc.at = n /\ SubSeq(calc.mem, 1, n) = calc.bytes
                 /\ calc.temp => calc.at = 0

\* DeflateBlock succeeded with the smallest trailing space that is used
\* in place.
C18_Witness ==
    /\ Deflated /\ calc.ok /\ ~calc.temp
    /\ calc.extrasize = Len(calc.bytes) + 64 /\ calc.at = Len(calc.bytes)

\* A level step has been taken in the patch that is under way.
Stepped == tool.pc \in {"level", "levelflush", "scale"} /\ tool.sl >= 1

\* The smallest range of coarser tiles that holds the halves of the tiles
\* first .. first + count - 1.
HalfFirst(first, count) == first \div 2
HalfLast(first, count) == (first + count - 1) \div 2

\* first2 .. first2 + count2 - 1 covers the halves of the finer range and
\* is at most one tile longer than the smallest range that does.
CoversHalves(first, count, first2, count2) ==
    /\ \A x \in first .. (first + count - 1) :
          x \div 2 >= first2 /\ x \div 2 < first2 + count2
    /\ count2 <= HalfLast(first, count) - HalfFirst(first, count) + 1 + 1

\* C13: for every region of at least one tile and every level step of
\* state::patch, the coarser region contains tile (floor(x/2), floor(y/2))
\* of every tile (x, y) of the finer region and is in each dimension at
\* most one tile larger than the smallest such region.
C13_LevelStepCovers ==
    (Stepped /\ tool.prev.w >= 1 /\ tool.prev.h >= 1) =>
        /\ CoversHalves(tool.prev.x, tool.prev.w, tool.region.x, tool.region.w)
        /\ CoversHalves(tool.prev.y, tool.prev.h, tool.region.y, tool.region.h)

\* The second level step of a region that starts on an odd tile and ends
\* on an even one: the coarser region has the extra tile.
C13_Witness ==
    /\ Stepped /\ tool.sl = 2 /\ tool.prev.x % 2 = 1 /\ tool.prev.w % 2 = 1
    /\ tool.region.w = HalfLast(tool.prev.x, tool.prev.w)
                          - HalfFirst(tool.prev.x, tool.prev.w) + 2

AfterFirstStep(r) == Stepped /\ tool.sl = 1 /\ tool.base = r

\* C14 as stated: the base region (3, 5, 4, 3) gives the level 1 region
\* (1, 2, 3, 2) in one level step.
C14_Original == AfterFirstStep(Region(3, 5, 4, 3)) => tool.region = Region(1, 2, 3, 2)

\* C14, amended: the base region (3, 5, 4, 3) gives the level 1 region
\* (1, 2, 3, 3) in one level step.
C14_LevelOneRegion ==
    AfterFirstStep(Region(3, 5, 4, 3)) => tool.region = Region(1, 2, 3, 3)

\* The level step from the base region (3, 5, 4, 3) was taken.
C14_Witness ==
    /\ AfterFirstStep(Region(3, 5, 4, 3)) /\ tool.prev = Region(3, 5, 4, 3)
    /\ tool.region.h = 3

\* The events of the patch under way: base writes, flushes, PatchOverview.
Events == DOMAIN tool.ev

\* C15: in state::patch the target is flushed after the base-level
\* insertion and before the first PatchOverview, there is a flush between
\* any two consecutive PatchOverview calls, PatchOverview is never called
\* while writes are unflushed, and the levels come in strictly increasing
\* order.
C15_FlushBetweenLevels ==
    /\ \A k \in Events :
          tool.ev[k].e = "patch" => (k > 1 /\ tool.ev[k - 1].e = "flush")
    /\ \A k \in Events :
          tool.ev[k].e = "base" =>
             /\ k = 1
             /\ Len(tool.ev) >= 2 => tool.ev[2].e = "flush"
    /\ \A j \in Events, k \in Events :
          (j < k /\ tool.ev[j].e = "patch" /\ tool.ev[k].e = "patch") =>
             tool.ev[j].sl < tool.ev[k].sl
    /\ tool.pc = "levelflush" => tool.ev[Len(tool.ev)].e = "patch"
    /\ (tool.pc = "level" /\ tool.sl < tool.target.ovr /\ InRange(tool)) => ~tool.dirty

\* The base level was written and two levels were patched, each followed
\* by a flush.
C15_Witness ==
    /\ tool.pc = "loop" /\ Len(tool.ev) >= 7
    /\ tool.ev[1].e = "base" /\ tool.ev[3].e = "patch" /\ tool.ev[5].e = "patch"
    /\ ~tool.dirty

Exited == tool.pc = "exit"

\* What the tool refuses.
TargetRefused == ~tool.target.opens \/ ~tool.target.mrf

ResRefused(s) ==
    \/ Abs(s.resx - OutRes) * 1000 > OutRes
    \/ Abs(s.resy - OutRes) * 1000 > OutRes

NotContained(s) ==
    \/ s.bbox.lx < TargetBox.lx \/ s.bbox.ux > TargetBox.ux
    \/ s.bbox.ly < TargetBox.ly \/ s.bbox.uy > TargetBox.uy

\* Not contained, the left and the upper edge being allowed to lie up to
\* 0.01 (two units) outside.
NotContainedBy(s) ==
    \/ s.bbox.lx + 2 < TargetBox.lx \/ s.bbox.ux > TargetBox.ux
    \/ s.bbox.ly < TargetBox.ly \/ s.bbox.uy - 2 > TargetBox.uy

Given == DOMAIN tool.sources

\* The sources were taken in the order of the arguments up to the first
\* that failed, and the exit code is 0 only when each was patched.
InOrderToFirstFailure ==
    /\ Len(tool.attempts) <= Len(tool.sources)
    /\ \A k \in DOMAIN tool.attempts : ~tool.attempts[k] => k = Len(tool.attempts)
    /\ tool.ret = 0 =>
          /\ Len(tool.attempts) = Len(tool.sources)
          /\ \A k \in DOMAIN tool.attempts : tool.attempts[k]
    /\ (Len(tool.attempts) < Len(tool.sources)) =>
          (tool.attempts # << >> /\ ~tool.attempts[Len(tool.attempts)])

\* C16 as stated: exit code 0 only if every source was patched; nonzero
\* when the target is not an MRF, the target or a source does not open,
\* the resolutions differ by more than 0.1% or a source's bounding box is
\* not contained in the target's; sources in argument order, up to the
\* first that fails.
C16_Original ==
    (Exited /\ tool.sources # << >>) =>
        /\ InOrderToFirstFailure
        /\ (\/ TargetRefused
            \/ \E k \in Given : \/ ~tool.sources[k].opens
                                \/ ResRefused(tool.sources[k])
                                \/ NotContained(tool.sources[k]))
              => tool.ret # 0

\* C16, amended: the same, a source's bounding box being refused when it
\* is not contained in the target's with its left and upper edges allowed
\* to lie up to 0.01 coordinate units outside.
C16_ExitCode ==
    (Exited /\ tool.sources # << >>) =>
        /\ InOrderToFirstFailure
        /\ (\/ TargetRefused
            \/ \E k \in Given : \/ ~tool.sources[k].opens
                                \/ ResRefused(tool.sources[k])
                                \/ NotContainedBy(tool.sources[k]))
              <=> tool.ret # 0

\* The first source was patched, the second refused for its bounds: the
\* tool stopped there with a nonzero code.
C16_Witness ==
    /\ Exited /\ Len(tool.sources) = 2 /\ tool.attempts = <<TRUE, FALSE>>
    /\ tool.ret = 2 /\ NotContainedBy(tool.sources[2])
    /\ ~ResRefused(tool.sources[2])

\* A call of state::patch has returned true.
Patched ==
    /\ tool.pc \in {"loop", "exit"} /\ tool.attempts # << >>
    /\ tool.attempts[Len(tool.attempts)]

\* The levels PatchOverview was called for in the patch under way.
PatchedLevels == {tool.ev[k].sl : k \in {j \in Events : tool.ev[j].e = "patch"}}

\* The region of a level: the halves of the block range of the level
\* below, the extent rounded up and one more for an odd start block.
RECURSIVE RegionAt(_, _)
RegionAt(r, n) ==
    IF n = 0 THEN r
    ELSE LET f == RegionAt(r, n - 1)
         IN Region(f.x \div 2, f.y \div 2,
                   ((f.w + 1) \div 2) + (f.x % 2), ((f.h + 1) \div 2) + (f.y % 2))

\* The level range of a call, from start_level and stop_level as the call
\* found them.
EntryLevels ==
    LET stop == IF tool.entry.stop = 0 - 1 THEN tool.target.ovr ELSE tool.entry.stop
    IN {sl \in 0 .. (tool.target.ovr - 1) : tool.entry.start - 1 <= sl /\ sl < stop}

\* C21: with -r, state::patch calls PatchOverview exactly for the source
\* levels sl with start_level - 1 <= sl < stop_level (the overview count
\* when stop_level is not set), in increasing order, with the base region
\* after sl level steps whether the levels before were patched or
\* skipped; the base level is written only when start_level is 0.
C21_LevelRange ==
    /\ \A k \in Events :
          tool.ev[k].e = "patch" =>
             /\ tool.overlays /\ tool.ev[k].sl \in EntryLevels
             /\ tool.ev[k].r = RegionAt(tool.base, tool.ev[k].sl)
             /\ \A j \in Events :
                   (j < k /\ tool.ev[j].e = "patch") => tool.ev[j].sl < tool.ev[k].sl
    /\ \A k \in Events : tool.ev[k].e = "base" => tool.entry.start = 0
    /\ tool.basewrites > 0 => tool.entry.start = 0
    /\ Patched =>
          /\ PatchedLevels = IF tool.overlays THEN EntryLevels ELSE {}
          /\ tool.entry.start = 0 =>
                tool.basewrites = (tool.blocks.ux - tool.blocks.lx)
                                     * (tool.blocks.ly - tool.blocks.uy)

\* A patch that skipped level 0 and patched level 1 with the region two
\* steps would not give, the base level not being written.
C21_Witness ==
    /\ Patched /\ tool.overlays /\ PatchedLevels = {1} /\ tool.entry.start = 2
    /\ tool.basewrites = 0 /\ tool.base.x % 2 = 1
    /\ \E k \in Events : tool.ev[k].e = "patch" /\ tool.ev[k].r # tool.base

\* C22: a call of state::patch leaves start_level and stop_level as they
\* were configured, so with -r every source is inserted with the level
\* range of the command line, and with start level 0 the base-level tiles
\* of every source are written.
C22_LevelsKept ==
    Patched =>
        /\ tool.start_level = tool.args.start /\ tool.stop_level = tool.args.stop
        /\ tool.entry = tool.args
        /\ tool.args.start = 0 =>
              tool.basewrites = (tool.blocks.ux - tool.blocks.lx)
                                   * (tool.blocks.ly - tool.blocks.uy)

Clipped == calc.op = "ClippedRasterIO"

\* The pixels of the request that lie on the band, in each dimension.
OnBand(off, size) == {p \in off .. (off + TileSize - 1) : p >= 0 /\ p < size}

\* C26: ClippedRasterIO hands RasterIO the intersection of the request
\* with the band (no negative offset or size, nothing past the band),
\* each buffer pixel whose source position is on the band gets the source
\* pixel of that position, and the other buffer pixels are left as they
\* were.
C26_ClipsLikeRasterIO ==
    Clipped =>
        LET xs == OnBand(calc.nXOff, calc.band.xs)
            ys == OnBand(calc.nYOff, calc.band.ys)
        IN /\ calc.ret # "crash" /\ ~calc.ub
           /\ calc.win.xoff >= 0 /\ calc.win.yoff >= 0
           /\ calc.win.xsize >= 0 /\ calc.win.ysize >= 0
           /\ calc.win.xoff + calc.win.xsize <= calc.band.xs
           /\ calc.win.yoff + calc.win.ysize <= calc.band.ys
           /\ (xs # {} /\ ys # {}) =>
                 /\ calc.win.xoff .. (calc.win.xoff + calc.win.xsize - 1) = xs
                 /\ calc.win.yoff .. (calc.win.yoff + calc.win.ysize - 1) = ys
           /\ \A i \in 0 .. (TileSize - 1), j \in 0 .. (TileSize - 1) :
                 calc.buf[j * TileSize + i + 1] =
                    IF calc.nXOff + i \in xs /\ calc.nYOff + j \in ys
                    THEN BandPix(calc.band, calc.nXOff + i, calc.nYOff + j)
                    ELSE 0

\* The source of the patch in hand, and whether it leaves a part of the
\* block of a written tile uncovered.
PatchSource == tool.sources[tool.i]

BaseWritten == tool.pc = "flush" /\ tool.tiles # << >>

Uncovered(w) ==
    w.sox + TileSize > PatchSource.sizex \/ w.soy + TileSize > PatchSource.sizey

\* C25: in the base loop, whenever the source does not cover the whole
\* target tile in X or in Y, the buffer is first filled with the target's
\* content, so the pixels the source does not cover keep the values the
\* target had.
C25_PaddedFromTarget ==
    BaseWritten =>
        \A k \in 1 .. Len(tool.tiles) :
            LET w == tool.tiles[k]
            IN Uncovered(w) =>
                  /\ w.pad
                  /\ \A i \in 0 .. (TileSize - 1), j \in 0 .. (TileSize - 1) :
                        (w.sox + i >= PatchSource.sizex \/ w.soy + j >= PatchSource.sizey)
                           => w.buf[j * TileSize + i + 1]
                                 = TgtPix(w.band, w.x * TileSize + i, w.y * TileSize + j)

\* A call on an interleaved store that took a lock on a block of another
\* band.
TookLocks == last.op \in {"read", "write"} /\ last.locked > 0

\* C23: every lock on a block of another band that the interleaved
\* IWriteBlock or RB takes is dropped once before the call returns,
\* whatever it returns.
C23_LocksDropped == TookLocks => last.dropped = last.locked

\* The last call is a write to an interleaved store with the block of
\* every other band in the block cache.
AllResidentWrite ==
    /\ last.op = "write" /\ cfg.c > 1
    /\ \A b \in Bands \ {last.band} : last.inothers[b] # NULL

ElidedRead ==
    last.op = "read" /\ last.ret = OK /\ written[LastPos].kind = "elided"

\* C27: a tile that was elided reads back as the pixel values that were
\* elided: the emptiness test accepts a tile only when FillBlock
\* reproduces it, whatever the datatype and the NoData value.
C27_ElidedReadsBack ==
    ElidedRead => last.buf = written[LastPos].blocks[last.band]

\* C28: IWriteBlock leaves the pixel buffer it is handed, and the blocks
\* of the other bands, as they were, for every byte order and both
\* interleave modes.
C28_BufferKept ==
    last.op = "write" => (last.buf = last.inbuf /\ last.others = last.inothers)

Constructed == calc.op = "constructor"

\* The bits two numbers share.
RECURSIVE BitAnd(_, _)
BitAnd(a, b) ==
    IF a = 0 \/ b = 0 THEN 0
    ELSE (IF a % 2 = 1 /\ b % 2 = 1 THEN 1 ELSE 0) + 2 * BitAnd(a \div 2, b \div 2)

\* C29: for every quality from 0 to 100 the level packed into
\* deflate_flags is within 0 .. 9, the strategy sits at bit 6 and above
\* and leaves the level bits alone, and at most one of the gzip and raw
\* framing flags is set, gzip going first.
C29_FlagsPacked ==
    Constructed =>
        LET f == calc.deflate_flags
            gzbit == BitAnd(f, ZFLAG_GZ) # 0
            rawbit == BitAnd(f, ZFLAG_RAW) # 0
        IN /\ BitAnd(f, ZFLAG_LMASK) \in 0 .. 9
           /\ BitAnd(f, ZFLAG_LMASK) = calc.quality \div 10
           /\ calc.zstrategy \in ZStrategies => f \div 64 \in 1 .. 4
           /\ calc.zstrategy \notin ZStrategies => f \div 64 = 0
           /\ ~(gzbit /\ rawbit)
           /\ gzbit <=> calc.gz
           /\ rawbit <=> (calc.rawz /\ ~calc.gz)

Paged == calc.op = "page"

\* The bands of the group of the band that was written.
OwnGroup ==
    {b \in 0 .. (calc.nBands - 1) : b \div calc.cstride = calc.band \div calc.cstride}

\* C30: for an interleaved store whose band count is a multiple of the
\* group width N, the page IWriteBlock assembles and the page RB splits
\* involve the N bands of the tile's own group only, band b in slot
\* b mod N, and every strided copy stays within pageSizeBytes.
C30_OwnGroupOnly ==
    Paged =>
        /\ calc.wrBands \subseteq OwnGroup
        /\ calc.rbBands \subseteq OwnGroup
        /\ \A p \in 1 .. Len(calc.tbuffer) :
              IF p > calc.psb THEN calc.tbuffer[p] = calc.gb
              ELSE LET b == (calc.band \div calc.cstride) * calc.cstride
                            + ((p - 1) % calc.cstride)
                   IN calc.tbuffer[p] = IF b \in calc.wrBands THEN 10 + b ELSE calc.gb
        /\ \A b \in OwnGroup : calc.split[b] = GroupBlock(b)

====
